---- MODULE Spec2Model ----
(***************************************************************************)
(* helixOps: the Context Orchestrator (internal/orchestrator), its callers *)
(* (webhook handler, MCP analyze tool), the configuration it reads, the    *)
(* Analysis Engine (internal/analyzer), the Postmortem Composer            *)
(* (internal/postmortem) and the Remediation Rule Engine.                  *)
(* Times and durations are whole minutes.                                  *)
(***************************************************************************)
EXTENDS Integers, Sequences, FiniteSets, TLC

\* ------------------------------------------------------------------ bounds
MaxTime == 1
MaxMetric == 1
MaxCommits == 1
MaxTraces == 1
MaxWords == 3
MaxPromptCommits == 11
MaxMsgChars == 51
MaxDeliveries == 2
MaxPayload == 2
MaxChoices == 2

\* ------------------------------------------------------- program constants
ChanCap == 3
LoopCount_OneTooMany == 3 + 1

LoopCount == 3
DefaultMetricsWindow == 15
DefaultCommitsLookback == 1440
CommitCap == 10
MessageCap == 50
ShortSHA == 7
SpanCap == 10
SuggestionCap == 3

\* What the wall clock can show, and the StartsAt an alert can carry.
TimeNow == 0..MaxTime
AlertTimes == 0..MaxTime

Tasks == {"metrics", "commits", "traces"}
Services == {"checkout"}
MetricsWindowSettings == {"", "5m"}
NoErr == "nil"
CommitsErr == "commitsErr"
TracesErr == "tracesErr"

ZeroMetrics == [LatencyP99 |-> 0, ErrorRate |-> 0, RPS |-> 0]
ZeroTraces == [TraceCount |-> 0, SlowSpans |-> <<>>]
ZeroResult == [metrics |-> ZeroMetrics, commits |-> <<>>, traces |-> ZeroTraces, err |-> NoErr]
ZeroContext == [ServiceName |-> "", TimeWindow |-> [Start |-> 0, End |-> 0, Duration |-> 0],
                Metrics |-> ZeroMetrics, RecentCommits |-> <<>>, Traces |-> ZeroTraces,
                Alert |-> ""]
NoCalls == [latency |-> "none", errorRate |-> "none", rps |-> "none",
            commits |-> "none", getTraces |-> "none", slowSpans |-> "none"]

\* ------------------------------------------------------------------- state
VARIABLES
    cfg,            \* config.Config: Analysis.MetricsWindow, Tempo.Enabled
    nCalls,         \* how many PrepareContext calls may be in flight
    callPc,         \* position of each caller / PrepareContext call
    caller,         \* which entry point made the call
    cancelled,      \* the caller's cancellation scope was cancelled
    serviceName, alertTime,
    metricsStart, metricsEnd, commitsSince,
    taskPc,         \* position of each spawned goroutine
    taskRes,        \* what each goroutine's fetch function returned
    collab,         \* outcome of every collaborator call of this PrepareContext
    resultCh,       \* the buffered completion channel
    sent,           \* number of results each goroutine has put on resultCh
    i,              \* the aggregator's loop counter
    recvd,          \* the results the aggregator has received, in order
    ctxResult, aggregatedErr,
    downstream,     \* what the caller did with PrepareContext's return
    \* postmortem.Generator.Generate, one invocation at a time
    genPc,          \* "idle", "backend", "rules", "assemble", "done"
    genCtx,         \* the AnalysisContext Generate was given
    genPrompt,      \* the prompt handed to the backend
    genBackendCalls, genRuleCalls,  \* calls made by the current invocation
    llmResponse, ruleSuggestions,
    pm, genErr,     \* what Generate returned
    \* analyzer.Analyzer, one invocation at a time
    anPc,           \* "idle", "backend", "done", "panicked"
    anKind,         \* "Analyze" or "AnalyzeWithContext"
    anAlert, anCtx, \* the alert / the context the call was given
    anPrompt,       \* the prompt handed to the backend
    anBackendCalls, \* backend calls made by the current invocation
    anResult, anErr,    \* what the call returned
    \* the webhook handler's processAlerts
    deps,           \* which of the Handler's dependencies are non-nil
    amState,        \* AlertManager's view of every alert: firing or resolved
    deliveries,     \* webhook deliveries accepted so far
    resolvedDeliveries, \* per alert, deliveries that carried it as resolved
    queue,          \* the alerts of the payload the loop has yet to handle
    hookPc,         \* "idle", "loop", "generating", "analyzing"
    hookCtx,        \* the context of the alert being handled
    generateCalls,  \* per alert, calls of Generate
    postmortems,    \* per alert, Postmortems Generate returned
    saved,          \* per alert, Postmortems handed to the reporter
    httpResp,       \* the answer HandleWebhook wrote to the last request
    backlog,        \* processAlerts goroutines started and not yet running
    \* configuration loading and the LLM backend
    provPc,         \* "start", "loaded", "constructed", "setupFailed", "answered"
    environ,        \* the process environment config.Load read
    llmCfg,         \* config.LLMConfig as Load left it
    provider, provErr,  \* what NewProvider returned
    apiAnswer,      \* what the HTTP API answered to the backend's request
    analyzeRet      \* what the backend's Analyze returned

\* The variables of the Postmortem Composer.
genVars == <<genPc, genCtx, genPrompt, genBackendCalls, genRuleCalls,
             llmResponse, ruleSuggestions, pm, genErr>>

\* The variables of the Context Orchestrator and of its callers.
orchVars == <<cfg, nCalls, callPc, caller, cancelled, serviceName, alertTime,
              metricsStart, metricsEnd, commitsSince, taskPc, taskRes, collab,
              resultCh, sent, i, recvd, ctxResult, aggregatedErr, downstream>>

\* The variables of the Analysis Engine.
anVars == <<anPc, anKind, anAlert, anCtx, anPrompt, anBackendCalls, anResult, anErr>>

\* The variables of the webhook handler and of its environment.
hookVars == <<deps, amState, deliveries, resolvedDeliveries, queue, hookPc, hookCtx,
              generateCalls, postmortems, saved, httpResp, backlog>>

\* The variables of configuration loading and of the LLM backend.
provVars == <<provPc, environ, llmCfg, provider, provErr, apiAnswer, analyzeRet>>

\* The variables of everything but the Context Orchestrator.
engineVars == <<genVars, anVars, hookVars, provVars>>

\* What no engine step touches.
restVars == <<orchVars, provVars>>

vars == <<orchVars, engineVars>>

CallIds == 1..nCalls

\* ------------------------------------------------------------ configuration
ParseDuration(s) ==
    CASE s = "5m" -> 5
      [] s = "15m" -> 15
      [] s = "-5m" -> 0 - 5
      [] OTHER -> 0

GetMetricsWindowDuration(c) ==
    LET d == ParseDuration(c.MetricsWindow) IN IF d = 0 THEN DefaultMetricsWindow ELSE d

GetCommitsLookbackDuration(c) ==
    LET d == ParseDuration(c.CommitsLookback) IN IF d = 0 THEN DefaultCommitsLookback ELSE d

TempoClientIsNil == ~cfg.TempoEnabled

\* ------------------------------------------------------------------ strings
\* An alert name is a Go string, here the sequence of its characters; the
\* other texts are kept whole.
ToLowerChar(ch) ==
    CASE ch = "A" -> "a" [] ch = "B" -> "b" [] ch = "C" -> "c" [] ch = "D" -> "d"
      [] ch = "E" -> "e" [] ch = "F" -> "f" [] ch = "G" -> "g" [] ch = "H" -> "h"
      [] ch = "I" -> "i" [] ch = "J" -> "j" [] ch = "K" -> "k" [] ch = "L" -> "l"
      [] ch = "M" -> "m" [] ch = "N" -> "n" [] ch = "O" -> "o" [] ch = "P" -> "p"
      [] ch = "Q" -> "q" [] ch = "R" -> "r" [] ch = "S" -> "s" [] ch = "T" -> "t"
      [] ch = "U" -> "u" [] ch = "V" -> "v" [] ch = "W" -> "w" [] ch = "X" -> "x"
      [] ch = "Y" -> "y" [] ch = "Z" -> "z" [] OTHER -> ch

\* strings.ToLower
ToLower(s) == [k \in 1..Len(s) |-> ToLowerChar(s[k])]

\* strings.Contains
Contains(s, substr) ==
    \E off \in 0..(Len(s) - Len(substr)) : SubSeq(s, off + 1, off + Len(substr)) = substr

\* m[key] of a Go map of strings: the zero value when the key is absent.
Lookup(m, key) == IF key \in DOMAIN m THEN m[key] ELSE ""

\* The words alert names are made of here, and the names of up to n words.
Words ==
    { <<"H","i","g","h">>, <<"L","a","t","e","n","c","y">>, <<"A","l","e","r","t">>,
      <<"O","O","M">>, <<"K","i","l","l","e","d">>,
      <<"E","r","r","o","r","R","a","t","e">>,
      <<"h","i","g","h","_","e","r","r","o","r","_","r","a","t","e">>,
      <<"C","P","U">>, <<"T","h","r","o","t","t","l","i","n","g">>,
      <<"M","e","m","o","r","y">>, <<"D","i","s","k">> }

RECURSIVE NamesOfWords(_)
NamesOfWords(n) ==
    IF n = 0 THEN {<<>>}
    ELSE LET shorter == NamesOfWords(n - 1) IN
         shorter \cup {w \o m : w \in Words, m \in shorter}

AlertNames == NamesOfWords(MaxWords)

\* -------------------------------------------------------------- rule engine
LatencySuggestions(alert) ==
    << [Title |-> "Check Database Query Performance",
        Description |-> "High latency is often caused by unoptimized queries or missing indexes.",
        Action |-> <<"Review slow query logs in your database provider or check APM traces for bottleneck spans.">>],
       [Title |-> "Scale Up Service Replicas",
        Description |-> "If CPU/Memory is also high, the service might be underprovisioned for current traffic.",
        Action |-> <<"kubectl scale deployment ", Lookup(alert.Labels, "service_name"),
                     " --replicas=3">>] >>

ErrorRateSuggestions ==
    << [Title |-> "Investigate Recent Deployments",
        Description |-> "Spikes in error rates strongly correlate with recent code deployments.",
        Action |-> <<"Check GitHub Actions or ArgoCD for recent rollouts to this service.">>],
       [Title |-> "Check Downstream Dependencies",
        Description |-> "Ensure that upstream endpoints or databases are not rejecting connections or timing out.",
        Action |-> <<"Review error logs in Loki for 'connection refused' or 'timeout' errors.">>] >>

CPUSuggestions ==
    << [Title |-> "Review CPU Limits",
        Description |-> "The container might be getting heavily throttled by Kubernetes CPU limits.",
        Action |-> <<"Consider increasing the CPU limit in the pod's resources configuration.">>] >>

MemorySuggestions ==
    << [Title |-> "Investigate Memory Leaks",
        Description |-> "If memory climbs steadily until OOMKilled, there may be a memory leak.",
        Action |-> <<"Capture a heap profile (pprof) and analyze memory allocations.">>] >>

KwHighLatency == <<"h","i","g","h","l","a","t","e","n","c","y">>
KwLatency == <<"l","a","t","e","n","c","y">>
KwErrorRate == <<"e","r","r","o","r","r","a","t","e">>
KwHighErrorRate == <<"h","i","g","h","_","e","r","r","o","r","_","r","a","t","e">>
KwCPU == <<"c","p","u">>
KwThrottling == <<"t","h","r","o","t","t","l","i","n","g">>
KwMemory == <<"m","e","m","o","r","y">>
KwOOM == <<"o","o","m">>

\* Engine.GetSuggestions
GetSuggestions_FirstMatchOnly(alert) ==
    LET alertName == ToLower(alert.Name) IN
    IF Contains(alertName, KwHighLatency) \/ Contains(alertName, KwLatency)
    THEN LatencySuggestions(alert)
    ELSE IF Contains(alertName, KwErrorRate) \/ Contains(alertName, KwHighErrorRate)
    THEN ErrorRateSuggestions
    ELSE IF Contains(alertName, KwCPU) \/ Contains(alertName, KwThrottling)
    THEN CPUSuggestions
    ELSE IF Contains(alertName, KwMemory) \/ Contains(alertName, KwOOM)
    THEN MemorySuggestions
    ELSE <<>>

GetSuggestions_CaseSensitive(alert) ==
    LET alertName == alert.Name IN
       (IF Contains(alertName, KwHighLatency) \/ Contains(alertName, KwLatency)
        THEN LatencySuggestions(alert) ELSE <<>>)
    \o (IF Contains(alertName, KwErrorRate) \/ Contains(alertName, KwHighErrorRate)
        THEN ErrorRateSuggestions ELSE <<>>)
    \o (IF Contains(alertName, KwCPU) \/ Contains(alertName, KwThrottling)
        THEN CPUSuggestions ELSE <<>>)
    \o (IF Contains(alertName, KwMemory) \/ Contains(alertName, KwOOM)
        THEN MemorySuggestions ELSE <<>>)

GetSuggestions(alert) ==
    LET alertName == ToLower(alert.Name) IN
       (IF Contains(alertName, KwHighLatency) \/ Contains(alertName, KwLatency)
        THEN LatencySuggestions(alert) ELSE <<>>)
    \o (IF Contains(alertName, KwErrorRate) \/ Contains(alertName, KwHighErrorRate)
        THEN ErrorRateSuggestions ELSE <<>>)
    \o (IF Contains(alertName, KwCPU) \/ Contains(alertName, KwThrottling)
        THEN CPUSuggestions ELSE <<>>)
    \o (IF Contains(alertName, KwMemory) \/ Contains(alertName, KwOOM)
        THEN MemorySuggestions ELSE <<>>)

\* ------------------------------------------------------ postmortem composer
\* models.AlertInfo as processAlerts fills it from an alert of the payload.
AlertInfo(name, labels, summary, startsAt) ==
    [Name |-> name, Severity |-> Lookup(labels, "severity"),
     Summary |-> summary, Labels |-> labels, StartedAt |-> startsAt]

NoAlertInfo == AlertInfo(<<>>, <<>>, "", 0)

ZeroGenContext == [ZeroContext EXCEPT !.Alert = NoAlertInfo]

\* error values of the composer and of the analysis engine: nil, or a message
\* wrapping the backend's error (fmt.Errorf with %w)
NilError == [nil |-> TRUE, msg |-> "", wraps |-> ""]

Wrap(msg, err) == [nil |-> FALSE, msg |-> msg, wraps |-> err]

BackendErrors == {"context deadline exceeded", "API error (status 500)"}

\* The texts a backend answers with: the JSON it is asked for, or nothing.
LLMResponses == {"{\"root_cause\": \"slow query\", \"confidence\": \"high\"}", ""}

\* time.Time.Format and time.Duration.String: the text of a time, of a duration
FormatTime(layout, t) == [layout |-> layout, time |-> t]

DurationString(d) == [minutes |-> d]

NoPrompt == <<>>

NoMarkdown == [title |-> <<>>, date |-> FormatTime("", 0), duration |-> DurationString(0),
               body |-> "", heading |-> "", noMatch |-> FALSE, sections |-> <<>>]

\* a nil *Postmortem
NilPostmortem ==
    [nil |-> TRUE, IncidentName |-> <<>>, Date |-> 0, Duration |-> 0,
     RemediationRules |-> <<>>, Markdown |-> NoMarkdown]

\* Generator.buildPrompt; now and since are two readings of the wall clock
GenBuildPrompt(ctx, now, since) ==
    << "INCIDENT DETAILS", ctx.ServiceName, ctx.Alert.Name,
       FormatTime("RFC3339", ctx.Alert.StartedAt), FormatTime("RFC3339", now),
       DurationString(since - ctx.Alert.StartedAt), ctx.Alert.Summary,
       Len(ctx.RecentCommits) >>

\* Generator.assembleMarkdown: one section per remediation rule of pm
assembleMarkdown(p, llmBody) ==
    [title |-> <<"# ", p.IncidentName>>,
     date |-> FormatTime("2006-01-02 15:04:05", p.Date),
     duration |-> DurationString(p.Duration),
     body |-> llmBody,
     heading |-> "## Automated Rule-Based Suggestions",
     noMatch |-> Len(p.RemediationRules) = 0,
     sections |-> [k \in 1..Len(p.RemediationRules) |->
                     [h3 |-> p.RemediationRules[k].Title,
                      text |-> p.RemediationRules[k].Description,
                      bash |-> p.RemediationRules[k].Action]]]

GenIdle ==
    /\ genPc = "idle"
    /\ genCtx = ZeroGenContext
    /\ genPrompt = NoPrompt
    /\ genBackendCalls = 0
    /\ genRuleCalls = 0
    /\ llmResponse = ""
    /\ ruleSuggestions = <<>>
    /\ pm = NilPostmortem
    /\ genErr = NilError

\* ---------------------------------------------------------- analysis engine
\* A commit message is a Go string of UTF-8 text, here the sequence of the
\* byte widths of its characters; len(s) is the sum of the widths.
CharWidths == {1, 2, 3}

Messages == {[k \in 1..n |-> w] : n \in 0..MaxMsgChars, w \in CharWidths}

RECURSIVE ByteLen(_)
ByteLen(s) == IF Len(s) = 0 THEN 0 ELSE Head(s) + ByteLen(Tail(s))

\* truncate(s, maxLen): s itself, or the first maxLen bytes of s and "...".
\* The bytes kept are whole characters and, when the cut falls inside a
\* character, brokenBytes bytes of the next one.
truncate(s, maxLen) ==
    IF ByteLen(s) <= maxLen
    THEN [chars |-> s, brokenBytes |-> 0, ellipsis |-> FALSE]
    ELSE LET whole == CHOOSE k \in 0..Len(s) :
                        /\ ByteLen(SubSeq(s, 1, k)) <= maxLen
                        /\ k < Len(s) => ByteLen(SubSeq(s, 1, k + 1)) > maxLen
         IN [chars |-> SubSeq(s, 1, whole),
             brokenBytes |-> maxLen - ByteLen(SubSeq(s, 1, whole)),
             ellipsis |-> TRUE]

\* The commit lists of the contexts the Analysis Engine is given: n commits,
\* numbered in list order, a SHA of shaLen characters, the message msg.
PromptCommits(n, shaLen, msg) ==
    [k \in 1..n |-> [SHA |-> [id |-> k, len |-> shaLen], Message |-> msg,
                     Author |-> "dev"]]

Min(a, b) == IF a <= b THEN a ELSE b

\* formatCommits: one line per commit, the loop left at i >= 10; c.SHA[:7]
\* panics on a SHA of fewer than 7 characters.
formatCommits(commits) ==
    LET shown == Min(Len(commits), CommitCap) IN
    [empty |-> Len(commits) = 0,
     panic |-> \E k \in 1..shown : commits[k].SHA.len < ShortSHA,
     lines |-> [k \in 1..shown |->
                  [sha |-> [id |-> commits[k].SHA.id,
                            len |-> Min(commits[k].SHA.len, ShortSHA)],
                   msg |-> truncate(commits[k].Message, MessageCap),
                   author |-> commits[k].Author]]]

\* formatSpans: one entry per span, the loop left at i >= 10
formatSpans(spans) == [k \in 1..Min(Len(spans), SpanCap) |-> spans[k]]

\* fmt's %.2f of a number
Fmt2f(x) == [verb |-> "%.2f", value |-> x]

\* Analyzer.buildPrompt, the rapid path: the fields of the alert it embeds
buildPrompt(alert) ==
    << "ALERT", Lookup(alert.Labels, "service_name"), Lookup(alert.Labels, "alertname"),
       Lookup(alert.Labels, "severity"), FormatTime("RFC3339", alert.StartsAt),
       Lookup(alert.Annotations, "summary") >>

\* Analyzer.buildContextPrompt: the fields of the context it embeds
buildContextPrompt(ctx) ==
    << "ALERT", ctx.ServiceName, ctx.Alert.Name, ctx.Alert.Severity,
       FormatTime("RFC3339", ctx.Alert.StartedAt), ctx.Alert.Summary,
       "METRICS", Fmt2f(ctx.Metrics.LatencyP99), Fmt2f(ctx.Metrics.ErrorRate * 100),
       Fmt2f(ctx.Metrics.RPS),
       "DISTRIBUTED TRACES", Len(ctx.Traces.SlowSpans), formatSpans(ctx.Traces.SlowSpans),
       "RECENT COMMITS", Len(ctx.RecentCommits), formatCommits(ctx.RecentCommits) >>

\* a nil *AnalysisResult
NilResult ==
    [nil |-> TRUE, ServiceName |-> "", AlertName |-> <<>>, Severity |-> "", Summary |-> "",
     RootCause |-> "", Metrics |-> ZeroMetrics, Commits |-> <<>>, Confidence |-> "",
     AnalyzedAt |-> 0]

\* models.AlertItem of a payload
AlertItem(fingerprint, status, labels, annotations, startsAt) ==
    [Fingerprint |-> fingerprint, Status |-> status, Labels |-> labels,
     Annotations |-> annotations, StartsAt |-> startsAt]

NoAlertItem == AlertItem("", "", <<>>, <<>>, 0)

AnIdle ==
    /\ anPc = "idle"
    /\ anKind = ""
    /\ anAlert = NoAlertItem
    /\ anCtx = ZeroGenContext
    /\ anPrompt = NoPrompt
    /\ anBackendCalls = 0
    /\ anResult = NilResult
    /\ anErr = NilError

\* ---------------------------------------------------------- webhook handler
\* The alerts AlertManager knows here, by fingerprint.
AlertIds == {"latency", "oom", "disk"}

AlertNameOf(a) ==
    CASE a = "latency" -> <<"H","i","g","h","L","a","t","e","n","c","y","A","l","e","r","t">>
      [] a = "oom" -> <<"O","O","M","K","i","l","l","e","d">>
      [] OTHER -> <<"D","i","s","k","F","u","l","l">>

\* The first names its service under service_name, the second under job, the
\* third under none of the keys the handler looks at.
AlertLabelsOf(a) ==
    CASE a = "latency" -> [alertname |-> AlertNameOf(a), service_name |-> "checkout",
                           severity |-> "critical"]
      [] a = "oom" -> [alertname |-> AlertNameOf(a), job |-> "payments"]
      [] OTHER -> [alertname |-> AlertNameOf(a), instance |-> "node-1"]

AlertAnnotationsOf(a) == IF a = "latency" THEN [summary |-> "p99 above 2s"] ELSE <<>>

\* extractServiceName
extractServiceName(labels) ==
    IF "service_name" \in DOMAIN labels THEN labels["service_name"]
    ELSE IF "service" \in DOMAIN labels THEN labels["service"]
    ELSE IF "job" \in DOMAIN labels THEN labels["job"]
    ELSE ""

\* The handler at rest, d telling which of its dependencies are non-nil.
HookRest(d) ==
    /\ deps = d
    /\ amState = [a \in AlertIds |-> "firing"]
    /\ deliveries = 0
    /\ resolvedDeliveries = [a \in AlertIds |-> 0]
    /\ queue = <<>>
    /\ hookPc = "idle"
    /\ hookCtx = ZeroGenContext
    /\ generateCalls = [a \in AlertIds |-> 0]
    /\ postmortems = [a \in AlertIds |-> 0]
    /\ saved = [a \in AlertIds |-> 0]
    /\ httpResp = [code |-> 0, error |-> "", status |-> ""]
    /\ backlog = <<>>

HookIdle == HookRest([generator |-> TRUE, analyzer |-> TRUE, mdReporter |-> TRUE])

\* ------------------------------------------------- configuration, backends
\* The llm.provider settings tried, as character sequences: the three
\* lower-case names, spellings of them in another letter case, and a name no
\* backend has.
ProviderOpenAI == <<"o","p","e","n","a","i">>
ProviderAnthropic == <<"a","n","t","h","r","o","p","i","c">>
ProviderOllama == <<"o","l","l","a","m","a">>
ProviderStrings ==
    { ProviderOpenAI, ProviderAnthropic, ProviderOllama,
      <<"O","p","e","n","A","I">>, <<"A","n","t","h","r","o","p","i","c">>,
      <<"O","L","L","A","M","A">>, <<"g","e","m","i","n","i">> }

\* What os.Getenv can return for the two API key variables.
OpenAIKeys == {"", "sk-openai"}
AnthropicKeys == {"", "sk-ant"}
Environments == [OPENAI_API_KEY : OpenAIKeys, ANTHROPIC_API_KEY : AnthropicKeys]

\* config.LLMConfig before Load has run.
ZeroLLMConfig == [Provider |-> <<>>, Model |-> "", OllamaURL |-> "", OllamaModel |-> "",
                  APIKey |-> ""]

\* The part of config.Load that fills the LLM configuration: the provider
\* string as configured, the default model, and the API key read from the
\* environment variable chosen by comparing the provider string as written.
LoadLLM(providerString, environment) ==
    LET unmarshalled == [Provider |-> providerString, Model |-> "gpt-4o",
                         OllamaURL |-> "", OllamaModel |-> "", APIKey |-> ""]
        apiKeyEnv == IF unmarshalled.Provider = ProviderAnthropic
                     THEN "ANTHROPIC_API_KEY" ELSE "OPENAI_API_KEY"
    IN  IF unmarshalled.Provider # ProviderOllama
        THEN [unmarshalled EXCEPT !.APIKey = environment[apiKeyEnv]]
        ELSE unmarshalled

\* LLMConfig.ProviderType
ProviderType(c) == ToLower(c.Provider)

\* A value of the Provider interface: its dynamic type ("nil" for the nil
\* interface), whether the pointer it holds is nil, and the backend's fields.
NilProvider == [dynType |-> "nil", ptrNil |-> TRUE, apiKey |-> "", model |-> "", url |-> ""]

NewOpenAIProvider_NoKeyCheck(apiKey, model) ==
    [p |-> [dynType |-> "*OpenAIProvider", ptrNil |-> FALSE, apiKey |-> apiKey,
            model |-> model, url |-> "https://api.openai.com/v1"],
     err |-> NoErr]

NewOpenAIProvider(apiKey, model) ==
    IF apiKey = ""
    THEN [p |-> [NilProvider EXCEPT !.dynType = "*OpenAIProvider"],
          err |-> "OpenAI API key is required"]
    ELSE [p |-> [dynType |-> "*OpenAIProvider", ptrNil |-> FALSE, apiKey |-> apiKey,
                 model |-> IF model = "" THEN "gpt-4o" ELSE model,
                 url |-> "https://api.openai.com/v1"],
          err |-> NoErr]

NewAnthropicProvider(apiKey, model) ==
    IF apiKey = ""
    THEN [p |-> [NilProvider EXCEPT !.dynType = "*AnthropicProvider"],
          err |-> "Anthropic API key is required"]
    ELSE [p |-> [dynType |-> "*AnthropicProvider", ptrNil |-> FALSE, apiKey |-> apiKey,
                 model |-> IF model = "" THEN "claude-3-5-sonnet-20241022" ELSE model,
                 url |-> "https://api.anthropic.com/v1"],
          err |-> NoErr]

NewOllamaProvider(url, model) ==
    [p |-> [dynType |-> "*OllamaProvider", ptrNil |-> FALSE, apiKey |-> "",
            model |-> IF model = "" THEN "llama3" ELSE model,
            url |-> IF url = "" THEN "http://localhost:11434" ELSE url],
     err |-> NoErr]

\* llm.NewProvider: the factory switches on the lower-cased provider string.
NewProvider(c) ==
    LET providerType == ProviderType(c)
    IN  CASE providerType = ProviderOpenAI -> NewOpenAIProvider(c.APIKey, c.Model)
          [] providerType = ProviderAnthropic -> NewAnthropicProvider(c.APIKey, c.Model)
          [] providerType = ProviderOllama -> NewOllamaProvider(c.OllamaURL, c.OllamaModel)
          [] OTHER -> [p |-> NilProvider, err |-> "unsupported provider"]

\* Provider.Name: none of the three methods reads its receiver.
ProviderName(p) ==
    CASE p.dynType = "*OpenAIProvider" -> ProviderOpenAI
      [] p.dynType = "*AnthropicProvider" -> ProviderAnthropic
      [] p.dynType = "*OllamaProvider" -> ProviderOllama

\* What the HTTP API can answer to one request: the transport fails, or a
\* status arrives with a body that decodes or not into a list of choices
\* (content blocks for Anthropic) and, for Ollama, a response text.
StatusOK == 200
ApiStatuses == {StatusOK, 401, 500}
ChoiceTexts == {"", "{\"root_cause\": \"slow query\"}", "{\"root_cause\": \"bad deploy\"}"}
RECURSIVE ChoiceLists(_)
ChoiceLists(n) ==
    IF n = 0 THEN {<<>>}
    ELSE ChoiceLists(n - 1) \cup
         {Append(l, t) : l \in {m \in ChoiceLists(n - 1) : Len(m) = n - 1}, t \in ChoiceTexts}
ApiAnswers ==
    [transport : {"ok"}, status : ApiStatuses, decodes : BOOLEAN,
     choices : ChoiceLists(MaxChoices), response : {"", "{\"root_cause\": \"slow query\"}"}]
    \cup {[transport |-> "failed", status |-> 0, decodes |-> FALSE, choices |-> <<>>,
           response |-> ""]}
NoAnswer == [transport |-> "none", status |-> 0, decodes |-> FALSE, choices |-> <<>>,
             response |-> ""]

\* What Analyze returns: (string, error) with the error reduced to its
\* leading text.
AnalyzeReturn(text, err) == [text |-> text, err |-> err]
NoReturn == AnalyzeReturn("", "not called")

OpenAIAnalyze_BodyAsText(answer) ==
    CASE answer.transport = "failed" -> AnalyzeReturn("", "request failed")
      [] answer.status # StatusOK -> AnalyzeReturn("error body", "OpenAI API error")
      [] ~answer.decodes -> AnalyzeReturn("", "failed to decode response")
      [] Len(answer.choices) = 0 -> AnalyzeReturn("", "no choices in response")
      [] OTHER -> AnalyzeReturn(answer.choices[1], NoErr)

\* OpenAIProvider.Analyze, from the HTTP exchange on.
OpenAIAnalyze(answer) ==
    CASE answer.transport = "failed" -> AnalyzeReturn("", "request failed")
      [] answer.status # StatusOK -> AnalyzeReturn("", "OpenAI API error")
      [] ~answer.decodes -> AnalyzeReturn("", "failed to decode response")
      [] Len(answer.choices) = 0 -> AnalyzeReturn("", "no choices in response")
      [] OTHER -> AnalyzeReturn(answer.choices[1], NoErr)

\* AnthropicProvider.Analyze, from the HTTP exchange on.
AnthropicAnalyze(answer) ==
    CASE answer.transport = "failed" -> AnalyzeReturn("", "request failed")
      [] answer.status # StatusOK -> AnalyzeReturn("", "Anthropic API error")
      [] ~answer.decodes -> AnalyzeReturn("", "failed to decode response")
      [] Len(answer.choices) = 0 -> AnalyzeReturn("", "no content in response")
      [] OTHER -> AnalyzeReturn(answer.choices[1], NoErr)

\* OllamaProvider.Analyze, from the HTTP exchange on.
OllamaAnalyze(answer) ==
    CASE answer.transport = "failed" -> AnalyzeReturn("", "request failed")
      [] answer.status # StatusOK -> AnalyzeReturn("", "Ollama API error")
      [] ~answer.decodes -> AnalyzeReturn("", "failed to decode response")
      [] OTHER -> AnalyzeReturn(answer.response, NoErr)

\* No configuration is loaded and no backend is built at first.
ProvIdle ==
    /\ provPc = "start"
    /\ environ = [OPENAI_API_KEY |-> "", ANTHROPIC_API_KEY |-> ""]
    /\ llmCfg = ZeroLLMConfig
    /\ provider = NilProvider
    /\ provErr = NoErr
    /\ apiAnswer = NoAnswer
    /\ analyzeRet = NoReturn

\* ------------------------------------------------------------------- Init
\* The state after construction, with room for n calls of PrepareContext.
InitSettings(n, settings) ==
    /\ cfg \in [MetricsWindow : settings, CommitsLookback : {""}, TempoEnabled : BOOLEAN]
    /\ nCalls = n
    /\ callPc = [c \in CallIds |-> "idle"]
    /\ caller = [c \in CallIds |-> "none"]
    /\ cancelled = [c \in CallIds |-> FALSE]
    /\ serviceName = [c \in CallIds |-> ""]
    /\ alertTime = [c \in CallIds |-> 0]
    /\ metricsStart = [c \in CallIds |-> 0]
    /\ metricsEnd = [c \in CallIds |-> 0]
    /\ commitsSince = [c \in CallIds |-> 0]
    /\ taskPc = [c \in CallIds |-> [t \in Tasks |-> "idle"]]
    /\ taskRes = [c \in CallIds |-> [t \in Tasks |-> ZeroResult]]
    /\ collab = [c \in CallIds |-> NoCalls]
    /\ resultCh = [c \in CallIds |-> <<>>]
    /\ sent = [c \in CallIds |-> [t \in Tasks |-> 0]]
    /\ i = [c \in CallIds |-> 0]
    /\ recvd = [c \in CallIds |-> <<>>]
    /\ ctxResult = [c \in CallIds |-> ZeroContext]
    /\ aggregatedErr = [c \in CallIds |-> NoErr]
    /\ downstream = [c \in CallIds |-> "none"]

InitCalls(n) == InitSettings(n, MetricsWindowSettings)

\* The engines are at rest at first.
EnginesIdle == GenIdle /\ AnIdle /\ HookIdle /\ ProvIdle

Init == InitCalls(1) /\ EnginesIdle

\* ------------------------------------------------------------ collaborators
\* A collaborator call returns (value, error); once the caller's scope is
\* cancelled every call made under it returns an error.
Failed(zero) == [val |-> zero, failed |-> TRUE]

Returned(v) == [val |-> v, failed |-> FALSE]

QueryOutcomes(c) ==
    {Failed(0)} \cup (IF cancelled[c] THEN {} ELSE {Returned(v) : v \in 0..MaxMetric})

CommitLists == {[k \in 1..n |-> [SHA |-> k]] : n \in 0..MaxCommits}

FetchCommitsByRepoOutcomes(c) ==
    {Failed(<<>>)} \cup (IF cancelled[c] THEN {} ELSE {Returned(l) : l \in CommitLists})

\* GetTracesByService: the number of traces found.
GetTracesByServiceOutcomes(c) ==
    {Failed(0)} \cup (IF cancelled[c] THEN {} ELSE {Returned(n) : n \in 0..MaxTraces})

\* SearchSlowSpans returns its never-appended slowSpans slice, or an error.
SearchSlowSpansOutcomes(c) ==
    {Failed(<<>>)} \cup (IF cancelled[c] THEN {} ELSE {Returned(<<>>)})

Outcome(o) == IF o.failed THEN "err" ELSE "ok"

\* ------------------------------------------------------- the fetch functions
fetchMetrics(latency, errorRate, rps) ==
    [metrics |-> [LatencyP99 |-> IF latency.failed THEN 0 ELSE latency.val,
                  ErrorRate  |-> IF errorRate.failed THEN 0 ELSE errorRate.val,
                  RPS        |-> IF rps.failed THEN 0 ELSE rps.val],
     err |-> NoErr]

fetchCommits_EmptyIsError(commits) ==
    IF commits.failed \/ Len(commits.val) = 0
    THEN [commits |-> <<>>, err |-> CommitsErr]
    ELSE [commits |-> [k \in 1..Len(commits.val) |-> [SHA |-> commits.val[k].SHA]],
          err |-> NoErr]

fetchCommits(commits) ==
    IF commits.failed
    THEN [commits |-> <<>>, err |-> CommitsErr]
    ELSE [commits |-> [k \in 1..Len(commits.val) |-> [SHA |-> commits.val[k].SHA]],
          err |-> NoErr]

fetchTraces_NoNilCheck(tempoNil, traces, slow) ==
    IF traces.failed THEN [traces |-> ZeroTraces, err |-> TracesErr, called |-> TRUE]
    ELSE [traces |-> [TraceCount |-> traces.val,
                      SlowSpans |-> IF slow.failed THEN <<>> ELSE slow.val],
          err |-> NoErr, called |-> TRUE]

\* traces and slow are the collaborator's answers; neither is used when the
\* tempo client is nil.
fetchTraces(tempoNil, traces, slow) ==
    IF tempoNil THEN [traces |-> ZeroTraces, err |-> NoErr, called |-> FALSE]
    ELSE IF traces.failed THEN [traces |-> ZeroTraces, err |-> TracesErr, called |-> TRUE]
    ELSE [traces |-> [TraceCount |-> traces.val,
                      SlowSpans |-> IF slow.failed THEN <<>> ELSE slow.val],
          err |-> NoErr, called |-> TRUE]

\* ------------------------------------------------------------ the aggregator
NextAggregatedErr_KeepFirst(agg, r) == IF r.err # NoErr /\ agg = NoErr THEN r.err ELSE agg

NextAggregatedErr(agg, r) == IF r.err # NoErr THEN r.err ELSE agg

Merge_Overwrites(ctx, r) ==
    [ctx EXCEPT !.RecentCommits = r.commits, !.Metrics = r.metrics, !.Traces = r.traces]

\* The loop body's three updates of ctxResult, each under its condition.
Merge(ctx, r) ==
    LET c1 == IF Len(r.commits) > 0 THEN [ctx EXCEPT !.RecentCommits = r.commits] ELSE ctx
        c2 == IF r.metrics.LatencyP99 > 0 \/ r.metrics.ErrorRate > 0
              THEN [c1 EXCEPT !.Metrics = r.metrics] ELSE c1
        c3 == IF r.traces.TraceCount > 0 THEN [c2 EXCEPT !.Traces = r.traces] ELSE c2
    IN c3

\* --------------------------------------------------------- PrepareContext
PrepareContext_WallClock(c, svc, at) ==
    \E n \in TimeNow :
    LET metricsWindow == GetMetricsWindowDuration(cfg)
        commitsLookback == GetCommitsLookbackDuration(cfg)
    IN
    /\ serviceName' = [serviceName EXCEPT ![c] = svc]
    /\ alertTime' = [alertTime EXCEPT ![c] = at]
    /\ metricsStart' = [metricsStart EXCEPT ![c] = n - metricsWindow]
    /\ metricsEnd' = [metricsEnd EXCEPT ![c] = n]
    /\ commitsSince' = [commitsSince EXCEPT ![c] = n - commitsLookback]
    /\ resultCh' = [resultCh EXCEPT ![c] = <<>>]
    /\ taskPc' = [taskPc EXCEPT ![c] = [t \in Tasks |-> "fetch"]]
    /\ aggregatedErr' = [aggregatedErr EXCEPT ![c] = NoErr]
    /\ ctxResult' = [ctxResult EXCEPT ![c] =
            [ZeroContext EXCEPT !.ServiceName = svc,
                                !.TimeWindow = [Start |-> n - metricsWindow, End |-> n,
                                                Duration |-> metricsWindow]]]
    /\ i' = [i EXCEPT ![c] = 0]
    /\ callPc' = [callPc EXCEPT ![c] = "collecting"]
    /\ UNCHANGED <<engineVars, cfg, nCalls, cancelled, taskRes, collab, sent, recvd, downstream>>

\* Lines 38-84: compute the windows, make the channel, spawn the three
\* goroutines and build the empty context.
PrepareContext(c, svc, at) ==
    LET metricsWindow == GetMetricsWindowDuration(cfg)
        commitsLookback == GetCommitsLookbackDuration(cfg)
    IN
    /\ serviceName' = [serviceName EXCEPT ![c] = svc]
    /\ alertTime' = [alertTime EXCEPT ![c] = at]
    /\ metricsStart' = [metricsStart EXCEPT ![c] = at - metricsWindow]
    /\ metricsEnd' = [metricsEnd EXCEPT ![c] = at]
    /\ commitsSince' = [commitsSince EXCEPT ![c] = at - commitsLookback]
    /\ resultCh' = [resultCh EXCEPT ![c] = <<>>]
    /\ taskPc' = [taskPc EXCEPT ![c] = [t \in Tasks |-> "fetch"]]
    /\ aggregatedErr' = [aggregatedErr EXCEPT ![c] = NoErr]
    /\ ctxResult' = [ctxResult EXCEPT ![c] =
            [ZeroContext EXCEPT !.ServiceName = svc,
                                !.TimeWindow = [Start |-> at - metricsWindow, End |-> at,
                                                Duration |-> metricsWindow]]]
    /\ i' = [i EXCEPT ![c] = 0]
    /\ callPc' = [callPc EXCEPT ![c] = "collecting"]
    /\ UNCHANGED <<engineVars, cfg, nCalls, cancelled, taskRes, collab, sent, recvd, downstream>>

\* The metrics goroutine up to its send: o.fetchMetrics and its three queries.
FetchMetrics(c) ==
    /\ taskPc[c]["metrics"] = "fetch"
    /\ \E l \in QueryOutcomes(c), e \in QueryOutcomes(c), r \in QueryOutcomes(c) :
        /\ taskRes' = [taskRes EXCEPT ![c]["metrics"] =
                [ZeroResult EXCEPT !.metrics = fetchMetrics(l, e, r).metrics,
                                   !.err = fetchMetrics(l, e, r).err]]
        /\ collab' = [collab EXCEPT ![c].latency = Outcome(l),
                                    ![c].errorRate = Outcome(e),
                                    ![c].rps = Outcome(r)]
    /\ taskPc' = [taskPc EXCEPT ![c]["metrics"] = "send"]
    /\ UNCHANGED <<engineVars, cfg, nCalls, callPc, caller, cancelled, serviceName, alertTime,
                   metricsStart, metricsEnd, commitsSince, resultCh, sent, i, recvd,
                   ctxResult, aggregatedErr, downstream>>

\* The commits goroutine up to its send: o.fetchCommits.
FetchCommits(c) ==
    /\ taskPc[c]["commits"] = "fetch"
    /\ \E cs \in FetchCommitsByRepoOutcomes(c) :
        /\ taskRes' = [taskRes EXCEPT ![c]["commits"] =
                [ZeroResult EXCEPT !.commits = fetchCommits(cs).commits,
                                   !.err = fetchCommits(cs).err]]
        /\ collab' = [collab EXCEPT ![c].commits = Outcome(cs)]
    /\ taskPc' = [taskPc EXCEPT ![c]["commits"] = "send"]
    /\ UNCHANGED <<engineVars, cfg, nCalls, callPc, caller, cancelled, serviceName, alertTime,
                   metricsStart, metricsEnd, commitsSince, resultCh, sent, i, recvd,
                   ctxResult, aggregatedErr, downstream>>

FetchTraces_NoReportOnError(c) ==
    /\ taskPc[c]["traces"] = "fetch"
    /\ \E tr \in GetTracesByServiceOutcomes(c), ss \in SearchSlowSpansOutcomes(c) :
        LET res == fetchTraces(TempoClientIsNil, tr, ss) IN
        /\ taskRes' = [taskRes EXCEPT ![c]["traces"] =
                [ZeroResult EXCEPT !.traces = res.traces, !.err = res.err]]
        /\ collab' = [collab EXCEPT
                ![c].getTraces = IF res.called THEN Outcome(tr) ELSE "none",
                ![c].slowSpans = IF res.called /\ ~tr.failed THEN Outcome(ss) ELSE "none"]
        /\ taskPc' = [taskPc EXCEPT ![c]["traces"] = IF res.err # NoErr THEN "done" ELSE "send"]
    /\ UNCHANGED <<engineVars, cfg, nCalls, callPc, caller, cancelled, serviceName, alertTime,
                   metricsStart, metricsEnd, commitsSince, resultCh, sent, i, recvd,
                   ctxResult, aggregatedErr, downstream>>

\* The traces goroutine up to its send: o.fetchTraces.
FetchTraces(c) ==
    /\ taskPc[c]["traces"] = "fetch"
    /\ \E tr \in GetTracesByServiceOutcomes(c), ss \in SearchSlowSpansOutcomes(c) :
        LET res == fetchTraces(TempoClientIsNil, tr, ss) IN
        /\ taskRes' = [taskRes EXCEPT ![c]["traces"] =
                [ZeroResult EXCEPT !.traces = res.traces, !.err = res.err]]
        /\ collab' = [collab EXCEPT
                ![c].getTraces = IF res.called THEN Outcome(tr) ELSE "none",
                ![c].slowSpans = IF res.called /\ ~tr.failed THEN Outcome(ss) ELSE "none"]
    /\ taskPc' = [taskPc EXCEPT ![c]["traces"] = "send"]
    /\ UNCHANGED <<engineVars, cfg, nCalls, callPc, caller, cancelled, serviceName, alertTime,
                   metricsStart, metricsEnd, commitsSince, resultCh, sent, i, recvd,
                   ctxResult, aggregatedErr, downstream>>

\* resultCh <- result{...}: blocks while the channel is full.
Send_SharedChannel(c, t) ==
    /\ taskPc[c][t] = "send"
    /\ Len(resultCh[1]) < ChanCap
    /\ resultCh' = [resultCh EXCEPT ![1] = Append(@, taskRes[c][t])]
    /\ sent' = [sent EXCEPT ![c][t] = @ + 1]
    /\ taskPc' = [taskPc EXCEPT ![c][t] = "done"]
    /\ UNCHANGED <<engineVars, cfg, nCalls, callPc, caller, cancelled, serviceName, alertTime,
                   metricsStart, metricsEnd, commitsSince, taskRes, collab, i, recvd,
                   ctxResult, aggregatedErr, downstream>>

Send(c, t) ==
    /\ taskPc[c][t] = "send"
    /\ Len(resultCh[c]) < ChanCap
    /\ resultCh' = [resultCh EXCEPT ![c] = Append(@, taskRes[c][t])]
    /\ sent' = [sent EXCEPT ![c][t] = @ + 1]
    /\ taskPc' = [taskPc EXCEPT ![c][t] = "done"]
    /\ UNCHANGED <<engineVars, cfg, nCalls, callPc, caller, cancelled, serviceName, alertTime,
                   metricsStart, metricsEnd, commitsSince, taskRes, collab, i, recvd,
                   ctxResult, aggregatedErr, downstream>>

\* One iteration of the collecting loop, lines 86-101.
Receive(c) ==
    /\ callPc[c] = "collecting"
    /\ i[c] < LoopCount
    /\ Len(resultCh[c]) > 0
    /\ LET r == Head(resultCh[c]) IN
        /\ aggregatedErr' = [aggregatedErr EXCEPT ![c] = NextAggregatedErr(@, r)]
        /\ ctxResult' = [ctxResult EXCEPT ![c] = Merge(@, r)]
        /\ recvd' = [recvd EXCEPT ![c] = Append(@, r)]
    /\ resultCh' = [resultCh EXCEPT ![c] = Tail(@)]
    /\ i' = [i EXCEPT ![c] = @ + 1]
    /\ UNCHANGED <<engineVars, cfg, nCalls, callPc, caller, cancelled, serviceName, alertTime,
                   metricsStart, metricsEnd, commitsSince, taskPc, taskRes, collab, sent,
                   downstream>>

Return_FailFast(c) ==
    /\ callPc[c] = "collecting"
    /\ i[c] >= LoopCount \/ aggregatedErr[c] # NoErr
    /\ callPc' = [callPc EXCEPT ![c] = "returned"]
    /\ UNCHANGED <<engineVars, cfg, nCalls, caller, cancelled, serviceName, alertTime,
                   metricsStart, metricsEnd, commitsSince, taskPc, taskRes, collab,
                   resultCh, sent, i, recvd, ctxResult, aggregatedErr, downstream>>

\* return ctxResult, aggregatedErr
Return(c) ==
    /\ callPc[c] = "collecting"
    /\ i[c] >= LoopCount
    /\ callPc' = [callPc EXCEPT ![c] = "returned"]
    /\ UNCHANGED <<engineVars, cfg, nCalls, caller, cancelled, serviceName, alertTime,
                   metricsStart, metricsEnd, commitsSince, taskPc, taskRes, collab,
                   resultCh, sent, i, recvd, ctxResult, aggregatedErr, downstream>>

\* ---------------------------------------------------------------- callers
\* processAlerts, status "resolved": PrepareContext(Background, service, StartsAt)
ProcessResolved(c, svc, startsAt) ==
    /\ callPc[c] = "idle"
    /\ caller' = [caller EXCEPT ![c] = "resolved"]
    /\ PrepareContext(c, svc, startsAt)

\* processAlerts, status "firing"
ProcessFiring(c, svc, startsAt) ==
    /\ callPc[c] = "idle"
    /\ caller' = [caller EXCEPT ![c] = "firing"]
    /\ PrepareContext(c, svc, startsAt)

\* MCP analyze_alert: PrepareContext(ctx, service, time.Now()); timeNow is
\* what the wall clock shows at the call.
HandleAnalyzeAlert(c, svc, timeNow) ==
    /\ callPc[c] = "idle"
    /\ caller' = [caller EXCEPT ![c] = "mcp"]
    /\ PrepareContext(c, svc, timeNow)

\* What each caller does with (ctx, err): on err # nil it gives up.
AfterPrepareContext(kind, err) ==
    IF err # NoErr THEN "abandoned"
    ELSE CASE kind = "resolved" -> "Generate"
           [] kind = "firing" -> "Analyze"
           [] OTHER -> "AnalyzeWithContext"

CallerContinue(c) ==
    /\ callPc[c] = "returned"
    /\ downstream' = [downstream EXCEPT ![c] = AfterPrepareContext(caller[c], aggregatedErr[c])]
    /\ ctxResult' = [ctxResult EXCEPT ![c].Alert =
            IF aggregatedErr[c] = NoErr /\ caller[c] # "firing" THEN "attached" ELSE @]
    /\ callPc' = [callPc EXCEPT ![c] = "handled"]
    /\ UNCHANGED <<engineVars, cfg, nCalls, caller, cancelled, serviceName, alertTime,
                   metricsStart, metricsEnd, commitsSince, taskPc, taskRes, collab,
                   resultCh, sent, i, recvd, aggregatedErr>>

\* The caller is done with this alert / request; the call's locals are gone.
Finish(c) ==
    /\ callPc[c] = "handled"
    /\ callPc' = [callPc EXCEPT ![c] = "idle"]
    /\ caller' = [caller EXCEPT ![c] = "none"]
    /\ cancelled' = [cancelled EXCEPT ![c] = FALSE]
    /\ serviceName' = [serviceName EXCEPT ![c] = ""]
    /\ alertTime' = [alertTime EXCEPT ![c] = 0]
    /\ metricsStart' = [metricsStart EXCEPT ![c] = 0]
    /\ metricsEnd' = [metricsEnd EXCEPT ![c] = 0]
    /\ commitsSince' = [commitsSince EXCEPT ![c] = 0]
    /\ taskPc' = [taskPc EXCEPT ![c] = [t \in Tasks |-> "idle"]]
    /\ taskRes' = [taskRes EXCEPT ![c] = [t \in Tasks |-> ZeroResult]]
    /\ collab' = [collab EXCEPT ![c] = NoCalls]
    /\ resultCh' = [resultCh EXCEPT ![c] = <<>>]
    /\ sent' = [sent EXCEPT ![c] = [t \in Tasks |-> 0]]
    /\ i' = [i EXCEPT ![c] = 0]
    /\ recvd' = [recvd EXCEPT ![c] = <<>>]
    /\ ctxResult' = [ctxResult EXCEPT ![c] = ZeroContext]
    /\ aggregatedErr' = [aggregatedErr EXCEPT ![c] = NoErr]
    /\ downstream' = [downstream EXCEPT ![c] = "none"]
    /\ UNCHANGED <<engineVars, cfg, nCalls>>

\* The MCP client cancels the request's scope while PrepareContext runs.
Cancel(c) ==
    /\ caller[c] = "mcp"
    /\ callPc[c] = "collecting"
    /\ ~cancelled[c]
    /\ cancelled' = [cancelled EXCEPT ![c] = TRUE]
    /\ UNCHANGED <<engineVars, cfg, nCalls, callPc, caller, serviceName, alertTime,
                   metricsStart, metricsEnd, commitsSince, taskPc, taskRes, collab,
                   resultCh, sent, i, recvd, ctxResult, aggregatedErr, downstream>>

\* One step of the system, the alerts' StartsAt drawn from startTimes and the
\* wall clock's readings from clock.
Step(startTimes, clock) ==
    \/ \E c \in CallIds, svc \in Services, at \in startTimes : ProcessResolved(c, svc, at)
    \/ \E c \in CallIds, svc \in Services, at \in startTimes : ProcessFiring(c, svc, at)
    \/ \E c \in CallIds, svc \in Services, n \in clock : HandleAnalyzeAlert(c, svc, n)
    \/ \E c \in CallIds : Cancel(c)
    \/ \E c \in CallIds : FetchMetrics(c)
    \/ \E c \in CallIds : FetchCommits(c)
    \/ \E c \in CallIds : FetchTraces(c)
    \/ \E c \in CallIds, t \in Tasks : Send(c, t)
    \/ \E c \in CallIds : Receive(c)
    \/ \E c \in CallIds : Return(c)
    \/ \E c \in CallIds : CallerContinue(c)
    \/ \E c \in CallIds : Finish(c)

Next == Step(AlertTimes, TimeNow)

Spec == Init /\ [][Next]_vars

\* A step of one of the three spawned goroutines of call c.
GoroutineStep(c) ==
    FetchMetrics(c) \/ FetchCommits(c) \/ FetchTraces(c) \/ \E t \in Tasks : Send(c, t)

\* A step of the goroutine that runs PrepareContext's collecting loop.
AggregatorStep(c) == Receive(c) \/ Return(c)

\* The Go scheduler keeps running runnable goroutines and collaborator calls
\* return: some spawned goroutine steps while one can, and so does the aggregator.
\* Progress does not depend on the times involved: one alert time, one reading.
InitFair == Init /\ cfg.MetricsWindow = ""

NextFair == Step({0}, {0})

FairSpec ==
    /\ InitFair /\ [][NextFair]_vars
    /\ WF_vars(GoroutineStep(1))
    /\ WF_vars(AggregatorStep(1))

\* ---------------------------------------------------- two calls in flight
\* The webhook handler starts processAlerts in a goroutine of its own for every
\* delivery, so two PrepareContext calls can run at once. Each call is for a
\* service of its own.
ConcService(c) == IF c = 1 THEN "checkout" ELSE "payments"

\* The collaborators' answers in the two-call runs: every call of a task fails
\* or every call of it returns one item, so that each task has a failing and a
\* non-empty outcome and the interleavings of two calls stay enumerable.
ConcInputs ==
    \A c \in CallIds :
        /\ taskRes[c]["metrics"].metrics \in
                {ZeroMetrics, [LatencyP99 |-> 1, ErrorRate |-> 1, RPS |-> 1]}
        /\ collab[c].latency = collab[c].errorRate
        /\ collab[c].errorRate = collab[c].rps
        /\ collab[c].commits = "ok" => Len(taskRes[c]["commits"].commits) = 1
        /\ collab[c].getTraces = "ok" =>
                /\ taskRes[c]["traces"].traces.TraceCount = 1
                /\ collab[c].slowSpans = "ok"

InitConc == InitCalls(2) /\ cfg.MetricsWindow = "" /\ cfg.TempoEnabled /\ EnginesIdle

NextConc ==
    \/ \E c \in CallIds : ProcessResolved(c, ConcService(c), 0)
    \/ \E c \in CallIds : FetchMetrics(c) /\ ConcInputs'
    \/ \E c \in CallIds : FetchCommits(c) /\ ConcInputs'
    \/ \E c \in CallIds : FetchTraces(c) /\ ConcInputs'
    \/ \E c \in CallIds, t \in Tasks : Send(c, t)
    \/ \E c \in CallIds : Receive(c)
    \/ \E c \in CallIds : Return(c)
    \/ \E c \in CallIds : CallerContinue(c)
    \/ \E c \in CallIds : Finish(c)

ConcSpec == InitConc /\ [][NextConc]_vars

\* ------------------------------------------------------ Generator.Generate
\* Generate is entered: the prompt is built (two readings of the wall clock)
\* and handed to the backend.
GenerateCall(ac, now, since) ==
    /\ genPc = "idle"
    /\ genCtx' = ac
    /\ genPrompt' = GenBuildPrompt(ac, now, since)
    /\ genBackendCalls' = 0
    /\ genRuleCalls' = 0
    /\ llmResponse' = ""
    /\ ruleSuggestions' = <<>>
    /\ pm' = NilPostmortem
    /\ genErr' = NilError
    /\ genPc' = "backend"

\* g.provider.Analyze returned a text.
GenBackendOk(response) ==
    /\ genPc = "backend"
    /\ genBackendCalls' = genBackendCalls + 1
    /\ llmResponse' = response
    /\ genPc' = "rules"
    /\ UNCHANGED <<genCtx, genPrompt, genRuleCalls, ruleSuggestions, pm, genErr>>

\* g.provider.Analyze returned an error: Generate returns nil and the error.
GenBackendFails_PartialPostmortem(err) ==
    /\ genPc = "backend"
    /\ genBackendCalls' = genBackendCalls + 1
    /\ pm' = [NilPostmortem EXCEPT !.nil = FALSE,
                                   !.RemediationRules = GetSuggestions(genCtx.Alert)]
    /\ genErr' = Wrap("postmortem generation failed", err)
    /\ genPc' = "done"
    /\ UNCHANGED <<genCtx, genPrompt, genRuleCalls, llmResponse, ruleSuggestions>>

GenBackendFails(err) ==
    /\ genPc = "backend"
    /\ genBackendCalls' = genBackendCalls + 1
    /\ pm' = NilPostmortem
    /\ genErr' = Wrap("postmortem generation failed", err)
    /\ genPc' = "done"
    /\ UNCHANGED <<genCtx, genPrompt, genRuleCalls, llmResponse, ruleSuggestions>>

\* ruleSuggestions := g.rules.GetSuggestions(ac.Alert)
GenRules ==
    /\ genPc = "rules"
    /\ genRuleCalls' = genRuleCalls + 1
    /\ ruleSuggestions' = GetSuggestions(genCtx.Alert)
    /\ genPc' = "assemble"
    /\ UNCHANGED <<genCtx, genPrompt, genBackendCalls, llmResponse, pm, genErr>>

GenAssemble_FirstThreeRules(now, since) ==
    LET kept == SubSeq(ruleSuggestions, 1, Min(Len(ruleSuggestions), SuggestionCap))
        p == [nil |-> FALSE,
              IncidentName |-> <<"Incident: ", genCtx.Alert.Name, " on ",
                                 genCtx.ServiceName>>,
              Date |-> now,
              Duration |-> since - genCtx.Alert.StartedAt,
              RemediationRules |-> kept,
              Markdown |-> NoMarkdown]
    IN
    /\ genPc = "assemble"
    /\ pm' = [p EXCEPT !.Markdown = assembleMarkdown(p, llmResponse)]
    /\ genErr' = NilError
    /\ genPc' = "done"
    /\ UNCHANGED <<genCtx, genPrompt, genBackendCalls, genRuleCalls, llmResponse,
                   ruleSuggestions>>

\* The Postmortem is filled in and its document assembled; Generate returns it.
GenAssemble(now, since) ==
    LET p == [nil |-> FALSE,
              IncidentName |-> <<"Incident: ", genCtx.Alert.Name, " on ",
                                 genCtx.ServiceName>>,
              Date |-> now,
              Duration |-> since - genCtx.Alert.StartedAt,
              RemediationRules |-> ruleSuggestions,
              Markdown |-> NoMarkdown]
    IN
    /\ genPc = "assemble"
    /\ pm' = [p EXCEPT !.Markdown = assembleMarkdown(p, llmResponse)]
    /\ genErr' = NilError
    /\ genPc' = "done"
    /\ UNCHANGED <<genCtx, genPrompt, genBackendCalls, genRuleCalls, llmResponse,
                   ruleSuggestions>>

\* The labels an alert can carry: the service under service_name, or under
\* service only.
LabelSets(svc) ==
    { [service_name |-> svc, severity |-> "critical"], [service |-> svc] }

\* The contexts Generate is given: a context of PrepareContext with the alert
\* snapshot attached.
GenContexts ==
    { [ZeroGenContext EXCEPT !.ServiceName = svc,
                             !.RecentCommits = commits,
                             !.Alert = AlertInfo(name, labels, "p99 above 2s", at)] :
        svc \in Services, commits \in {<<>>}, name \in AlertNames,
        labels \in UNION {LabelSets(sv) : sv \in Services}, at \in {0} }

\* The Postmortem Composer on its own, called with every context; the wall
\* clock's readings are drawn from clock.
GenStep(clock) ==
    \/ /\ genPc = "idle"
       /\ \E ac \in GenContexts, now \in clock, since \in clock :
            now <= since /\ GenerateCall(ac, now, since)
       /\ UNCHANGED <<restVars, anVars, hookVars>>
    \/ \E response \in LLMResponses :
            GenBackendOk(response) /\ UNCHANGED <<restVars, anVars, hookVars>>
    \/ \E err \in BackendErrors :
            GenBackendFails(err) /\ UNCHANGED <<restVars, anVars, hookVars>>
    \/ GenRules /\ UNCHANGED <<restVars, anVars, hookVars>>
    \/ \E now \in clock, since \in clock :
            now <= since /\ GenAssemble(now, since)
                /\ UNCHANGED <<restVars, anVars, hookVars>>

NextGen == GenStep({0})

InitGen == InitCalls(1) /\ cfg.MetricsWindow = "" /\ cfg.TempoEnabled /\ EnginesIdle

GenSpec == InitGen /\ [][NextGen]_vars

\* ------------------------------------------------------- Analyzer's methods
\* Analyze (the rapid path) is entered: the prompt is built from the alert and
\* handed to the backend.
AnalyzeCall(alert) ==
    /\ anPc = "idle"
    /\ anKind' = "Analyze"
    /\ anAlert' = alert
    /\ anCtx' = ZeroGenContext
    /\ anPrompt' = buildPrompt(alert)
    /\ anBackendCalls' = 0
    /\ anResult' = NilResult
    /\ anErr' = NilError
    /\ anPc' = "backend"

\* AnalyzeWithContext is entered: the prompt is built from the context and
\* handed to the backend, unless rendering it panics.
AnalyzeWithContextCall(ctxData) ==
    /\ anPc = "idle"
    /\ anKind' = "AnalyzeWithContext"
    /\ anAlert' = NoAlertItem
    /\ anCtx' = ctxData
    /\ anBackendCalls' = 0
    /\ anResult' = NilResult
    /\ anErr' = NilError
    /\ IF formatCommits(ctxData.RecentCommits).panic
       THEN anPrompt' = NoPrompt /\ anPc' = "panicked"
       ELSE anPrompt' = buildContextPrompt(ctxData) /\ anPc' = "backend"

\* a.provider.Analyze returned a text: the result is shaped around it.
AnBackendOk_ParsesResponse(response, now) ==
    /\ anPc = "backend"
    /\ anBackendCalls' = anBackendCalls + 1
    /\ anResult' =
        [nil |-> FALSE,
         ServiceName |-> anCtx.ServiceName,
         AlertName |-> anCtx.Alert.Name,
         Severity |-> anCtx.Alert.Severity,
         Summary |-> anCtx.Alert.Summary,
         RootCause |-> IF response = "" THEN "" ELSE "slow query",
         Metrics |-> anCtx.Metrics,
         Commits |-> anCtx.RecentCommits,
         Confidence |-> IF response = "" THEN "medium" ELSE "high",
         AnalyzedAt |-> now]
    /\ anErr' = NilError
    /\ anPc' = "done"
    /\ UNCHANGED <<anKind, anAlert, anCtx, anPrompt>>

AnBackendOk(response, now) ==
    /\ anPc = "backend"
    /\ anBackendCalls' = anBackendCalls + 1
    /\ anResult' =
        IF anKind = "Analyze"
        THEN [nil |-> FALSE,
              ServiceName |-> Lookup(anAlert.Labels, "service_name"),
              AlertName |-> Lookup(anAlert.Labels, "alertname"),
              Severity |-> Lookup(anAlert.Labels, "severity"),
              Summary |-> Lookup(anAlert.Annotations, "summary"),
              RootCause |-> response, Metrics |-> ZeroMetrics, Commits |-> <<>>,
              Confidence |-> "medium", AnalyzedAt |-> now]
        ELSE [nil |-> FALSE,
              ServiceName |-> anCtx.ServiceName,
              AlertName |-> anCtx.Alert.Name,
              Severity |-> anCtx.Alert.Severity,
              Summary |-> anCtx.Alert.Summary,
              RootCause |-> response, Metrics |-> anCtx.Metrics,
              Commits |-> anCtx.RecentCommits,
              Confidence |-> "medium", AnalyzedAt |-> now]
    /\ anErr' = NilError
    /\ anPc' = "done"
    /\ UNCHANGED <<anKind, anAlert, anCtx, anPrompt>>

\* a.provider.Analyze returned an error: nil and the wrapped error are returned.
AnBackendFails_DropsCommits(err) ==
    /\ anPc = "backend"
    /\ anBackendCalls' = anBackendCalls + 1
    /\ anResult' = NilResult
    /\ anErr' = Wrap("LLM analysis failed", err)
    /\ anPc' = "done"
    /\ anCtx' = [anCtx EXCEPT !.RecentCommits = <<>>]
    /\ UNCHANGED <<anKind, anAlert, anPrompt>>

AnBackendFails_RetryOnce(err) ==
    /\ anPc = "backend"
    /\ anBackendCalls' = anBackendCalls + 1
    /\ anResult' = NilResult
    /\ IF anBackendCalls = 0
       THEN anErr' = NilError /\ anPc' = "backend"
       ELSE anErr' = Wrap("LLM analysis failed", err) /\ anPc' = "done"
    /\ UNCHANGED <<anKind, anAlert, anCtx, anPrompt>>

AnBackendFails(err) ==
    /\ anPc = "backend"
    /\ anBackendCalls' = anBackendCalls + 1
    /\ anResult' = NilResult
    /\ anErr' = Wrap("LLM analysis failed", err)
    /\ anPc' = "done"
    /\ UNCHANGED <<anKind, anAlert, anCtx, anPrompt>>

\* The contexts AnalyzeWithContext is given: commit lists up to and beyond the
\* rendering cap, messages up to and beyond the truncation length.
AnContexts ==
    { [ZeroGenContext EXCEPT
            !.ServiceName = "checkout",
            !.Metrics = metrics,
            !.RecentCommits = PromptCommits(n, 40, msg),
            !.Alert = AlertInfo(AlertNameOf("latency"), AlertLabelsOf("latency"),
                                "p99 above 2s", 0)] :
        metrics \in {ZeroMetrics, [LatencyP99 |-> 1, ErrorRate |-> 1, RPS |-> 1]},
        n \in 0..MaxPromptCommits, msg \in Messages }

\* The alerts Analyze is given.
AnAlerts ==
    { AlertItem(a, "firing", AlertLabelsOf(a), AlertAnnotationsOf(a), at) :
        a \in AlertIds, at \in AlertTimes }

\* The Analysis Engine on its own, called with every alert and context.
NextAn ==
    \/ /\ anPc = "idle"
       /\ \E alert \in AnAlerts : AnalyzeCall(alert)
       /\ UNCHANGED <<restVars, genVars, hookVars>>
    \/ /\ anPc = "idle"
       /\ \E ctxData \in AnContexts : AnalyzeWithContextCall(ctxData)
       /\ UNCHANGED <<restVars, genVars, hookVars>>
    \/ \E response \in LLMResponses, now \in TimeNow :
            AnBackendOk(response, now) /\ UNCHANGED <<restVars, genVars, hookVars>>
    \/ \E err \in BackendErrors :
            AnBackendFails(err) /\ UNCHANGED <<restVars, genVars, hookVars>>

AnSpec == InitGen /\ [][NextAn]_vars

\* --------------------------------------------------- Handler.processAlerts
\* The locals of a Generate call are gone once its caller has what it returned.
GenReset ==
    /\ genPc' = "idle"
    /\ genCtx' = ZeroGenContext
    /\ genPrompt' = NoPrompt
    /\ genBackendCalls' = 0
    /\ genRuleCalls' = 0
    /\ llmResponse' = ""
    /\ ruleSuggestions' = <<>>
    /\ pm' = NilPostmortem
    /\ genErr' = NilError

\* The locals of an Analyze call are gone once its caller has what it returned.
AnReset ==
    /\ anPc' = "idle"
    /\ anKind' = ""
    /\ anAlert' = NoAlertItem
    /\ anCtx' = ZeroGenContext
    /\ anPrompt' = NoPrompt
    /\ anBackendCalls' = 0
    /\ anResult' = NilResult
    /\ anErr' = NilError

\* The context PrepareContext starts from, lines 50-58 of the orchestrator.
EmptyContext(svc, at) ==
    [ZeroContext EXCEPT !.ServiceName = svc,
                        !.TimeWindow = [Start |-> at - GetMetricsWindowDuration(cfg),
                                        End |-> at,
                                        Duration |-> GetMetricsWindowDuration(cfg)]]

\* What the three fetch tasks of a PrepareContext call can report.
MetricsResults ==
    { [ZeroResult EXCEPT !.metrics = fetchMetrics(q, q, q).metrics,
                         !.err = fetchMetrics(q, q, q).err] : q \in QueryOutcomes(1) }

CommitsResults ==
    { [ZeroResult EXCEPT !.commits = fetchCommits(cs).commits,
                         !.err = fetchCommits(cs).err] :
        cs \in FetchCommitsByRepoOutcomes(1) }

TracesResults ==
    { [ZeroResult EXCEPT !.traces = fetchTraces(TempoClientIsNil, tr, ss).traces,
                         !.err = fetchTraces(TempoClientIsNil, tr, ss).err] :
        tr \in GetTracesByServiceOutcomes(1), ss \in SearchSlowSpansOutcomes(1) }

\* The error PrepareContext returns for three results: that of a failed one,
\* nil when none failed.
ReturnedErrors(results) ==
    IF \A r \in results : r.err = NoErr THEN {NoErr}
    ELSE {r.err : r \in results} \ {NoErr}

\* What a whole PrepareContext call can return to the handler: the three
\* results merged into the starting context, and the error.
PrepareContextReturns(svc, at) ==
    UNION { { [ctx |-> Merge(Merge(Merge(EmptyContext(svc, at), rm), rc), rt),
               err |-> e] : e \in ReturnedErrors({rm, rc, rt}) } :
            rm \in MetricsResults, rc \in CommitsResults, rt \in TracesResults }

\* The payloads of a delivery: up to MaxPayload different alerts in some order.
Payloads ==
    { s \in UNION {[1..n -> AlertIds] : n \in 1..MaxPayload} :
        \A j, k \in DOMAIN s : j # k => s[j] # s[k] }

\* AlertManager sees an alert end.
AlertResolves(a) ==
    /\ amState[a] = "firing"
    /\ amState' = [amState EXCEPT ![a] = "resolved"]
    /\ UNCHANGED <<httpResp, backlog, deps, deliveries, resolvedDeliveries, queue, hookPc, hookCtx,
                   generateCalls, postmortems, saved>>

\* An HTTP request to /webhook: its method and its body, which cannot be
\* read, is not JSON, or is an AlertManager payload with a list of alerts.
NoAlerts == <<>>
Requests ==
    [method : {"POST", "GET"}, body : {"unreadable", "invalid json"}, alerts : {NoAlerts}]
    \cup [method : {"POST"}, body : {"payload"}, alerts : Payloads \cup {NoAlerts}]
    \cup [method : {"GET"}, body : {"payload"}, alerts : {NoAlerts, <<"latency">>}]

\* A well-formed delivery of AlertManager.
PostOf(payload) == [method |-> "POST", body |-> "payload", alerts |-> payload]

\* What HandleWebhook writes to the ResponseWriter: the status code, the
\* error text of http.Error and the "status" member of the JSON answer.
Response(code, errorText, status) == [code |-> code, error |-> errorText, status |-> status]
NoResponse == Response(0, "", "")
StatusBadRequest == 400
StatusMethodNotAllowed == 405

WebhookResponse_AcceptsEmptyList(request) ==
    CASE request.method # "POST" -> Response(StatusMethodNotAllowed, "Method not allowed", "")
      [] request.body = "unreadable" ->
            Response(StatusBadRequest, "Failed to read request body", "")
      [] request.body = "invalid json" ->
            Response(StatusBadRequest, "Invalid webhook payload", "")
      [] OTHER -> Response(StatusOK, "", "accepted")

\* The checks of HandleWebhook, in the code's order.
WebhookResponse(request) ==
    CASE request.method # "POST" -> Response(StatusMethodNotAllowed, "Method not allowed", "")
      [] request.body = "unreadable" ->
            Response(StatusBadRequest, "Failed to read request body", "")
      [] request.body = "invalid json" ->
            Response(StatusBadRequest, "Invalid webhook payload", "")
      [] Len(request.alerts) = 0 ->
            Response(StatusBadRequest, "No alerts in payload", "")
      [] OTHER -> Response(StatusOK, "", "accepted")

\* HandleWebhook: a request that fails a check is answered at once; an
\* accepted one starts a processAlerts goroutine on the payload's alerts, each
\* in the state AlertManager has it in, and is answered without waiting for
\* it. A goroutine started while another one runs is taken up after it.
ServeWebhook(request) ==
    LET resp == WebhookResponse(request)
        payload == request.alerts
        items == [k \in 1..Len(payload) |->
                    AlertItem(payload[k], amState[payload[k]], AlertLabelsOf(payload[k]),
                              AlertAnnotationsOf(payload[k]), 0)]
    IN  /\ httpResp' = resp
        /\ IF resp.code = StatusOK
           THEN /\ deliveries < MaxDeliveries
                /\ deliveries' = deliveries + 1
                /\ resolvedDeliveries' =
                        [a \in AlertIds |->
                            IF amState[a] = "resolved" /\ \E k \in DOMAIN payload : payload[k] = a
                            THEN resolvedDeliveries[a] + 1 ELSE resolvedDeliveries[a]]
                /\ IF hookPc = "idle"
                   THEN queue' = items /\ hookPc' = "loop" /\ UNCHANGED backlog
                   ELSE backlog' = Append(backlog, items) /\ UNCHANGED <<queue, hookPc>>
           ELSE UNCHANGED <<deliveries, resolvedDeliveries, queue, hookPc, backlog>>
        /\ UNCHANGED <<deps, amState, hookCtx, generateCalls, postmortems, saved>>

\* A processAlerts goroutine that was started while another one ran begins.
StartBacklog ==
    /\ hookPc = "idle" /\ backlog # <<>>
    /\ queue' = Head(backlog)
    /\ backlog' = Tail(backlog)
    /\ hookPc' = "loop"
    /\ UNCHANGED <<httpResp, deps, amState, deliveries, resolvedDeliveries, hookCtx,
                   generateCalls, postmortems, saved>>

\* A delivery of AlertManager that arrives while no processAlerts runs.
HandleWebhook(payload) ==
    /\ hookPc = "idle"
    /\ backlog = <<>>
    /\ ServeWebhook(PostOf(payload))

\* Why the loop body leaves an alert before calling PrepareContext, if it does.
SkipReason(alert) ==
    IF extractServiceName(alert.Labels) = "" THEN "no service label"
    ELSE IF alert.Status = "resolved"
         THEN (IF ~deps.generator THEN "missing dependency" ELSE "none")
    ELSE IF alert.Status # "firing" THEN "other status"
    ELSE IF ~deps.analyzer THEN "missing dependency"
    ELSE "none"

\* continue: on to the next alert of the payload.
Continue ==
    /\ queue' = Tail(queue)
    /\ hookCtx' = ZeroGenContext
    /\ hookPc' = "loop"

\* The loop body skips the alert.
SkipAlert ==
    /\ hookPc = "loop" /\ queue # <<>>
    /\ SkipReason(Head(queue)) # "none"
    /\ Continue
    /\ UNCHANGED <<httpResp, backlog, deps, amState, deliveries, resolvedDeliveries, generateCalls,
                   postmortems, saved>>

\* PrepareContext returned an error: the alert is dropped, resolved or firing.
PrepareContextFailed ==
    /\ hookPc = "loop" /\ queue # <<>>
    /\ SkipReason(Head(queue)) = "none"
    /\ \E out \in PrepareContextReturns(extractServiceName(Head(queue).Labels),
                                        Head(queue).StartsAt) : out.err # NoErr
    /\ Continue
    /\ UNCHANGED <<httpResp, backlog, deps, amState, deliveries, resolvedDeliveries, generateCalls,
                   postmortems, saved>>

\* A resolved alert: PrepareContext returned a context, the alert snapshot is
\* attached to it and Generate is called with it.
ResolvedGenerate(now, since) ==
    /\ hookPc = "loop" /\ queue # <<>>
    /\ SkipReason(Head(queue)) = "none"
    /\ Head(queue).Status = "resolved"
    /\ \E out \in PrepareContextReturns(extractServiceName(Head(queue).Labels),
                                        Head(queue).StartsAt) :
        /\ out.err = NoErr
        /\ LET alert == Head(queue)
               ac == [out.ctx EXCEPT !.Alert =
                        AlertInfo(Lookup(alert.Labels, "alertname"), alert.Labels,
                                  Lookup(alert.Annotations, "summary"), alert.StartsAt)]
           IN /\ hookCtx' = ac
              /\ GenerateCall(ac, now, since)
    /\ generateCalls' = [generateCalls EXCEPT ![Head(queue).Fingerprint] = @ + 1]
    /\ hookPc' = "generating"
    /\ UNCHANGED <<httpResp, backlog, deps, amState, deliveries, resolvedDeliveries, queue, postmortems,
                   saved>>

\* Generate returned a Postmortem: it is handed to the reporter, if there is
\* one, and an error of the reporter is only logged; the locals of the call
\* are gone.
GenerateSucceeded(reporterFails) ==
    /\ hookPc = "generating" /\ genPc = "done" /\ genErr.nil
    /\ postmortems' = [postmortems EXCEPT ![Head(queue).Fingerprint] = @ + 1]
    /\ IF deps.mdReporter
       THEN saved' = [saved EXCEPT ![Head(queue).Fingerprint] = @ + 1]
       ELSE UNCHANGED saved
    /\ Continue
    /\ GenReset
    /\ UNCHANGED <<httpResp, backlog, deps, amState, deliveries, resolvedDeliveries,
                   generateCalls>>

GenerateFailed_Returns ==
    /\ hookPc = "generating" /\ genPc = "done" /\ ~genErr.nil
    /\ queue' = <<>>
    /\ hookCtx' = ZeroGenContext
    /\ hookPc' = "idle"
    /\ GenReset
    /\ UNCHANGED <<httpResp, backlog, deps, amState, deliveries, resolvedDeliveries,
                   generateCalls, postmortems, saved>>

\* Generate returned an error: logged, on to the next alert.
GenerateFailed ==
    /\ hookPc = "generating" /\ genPc = "done" /\ ~genErr.nil
    /\ Continue
    /\ GenReset
    /\ UNCHANGED <<httpResp, backlog, deps, amState, deliveries, resolvedDeliveries, generateCalls,
                   postmortems, saved>>

\* A firing alert: PrepareContext returned a context, which is dropped, and
\* Analyze is called with the alert.
FiringAnalyze ==
    /\ hookPc = "loop" /\ queue # <<>>
    /\ SkipReason(Head(queue)) = "none"
    /\ Head(queue).Status = "firing"
    /\ \E out \in PrepareContextReturns(extractServiceName(Head(queue).Labels),
                                        Head(queue).StartsAt) : out.err = NoErr
    /\ AnalyzeCall(Head(queue))
    /\ hookPc' = "analyzing"
    /\ UNCHANGED <<httpResp, backlog, deps, amState, deliveries, resolvedDeliveries, queue, hookCtx,
                   generateCalls, postmortems, saved>>

\* Analyze returned, a result or an error: on to the next alert.
AnalyzeReturned ==
    /\ hookPc = "analyzing" /\ anPc = "done"
    /\ Continue
    /\ AnReset
    /\ UNCHANGED <<httpResp, backlog, deps, amState, deliveries, resolvedDeliveries, generateCalls,
                   postmortems, saved>>

\* The range loop has run out of alerts: processAlerts returns.
LoopEnd ==
    /\ hookPc = "loop" /\ queue = <<>>
    /\ hookPc' = "idle"
    /\ UNCHANGED <<httpResp, backlog, deps, amState, deliveries, resolvedDeliveries, queue, hookCtx,
                   generateCalls, postmortems, saved>>

\* The handler with the engines it drives; the wall clock's readings are drawn
\* from clock.
HookStep(clock) ==
    \/ \E a \in AlertIds : AlertResolves(a) /\ UNCHANGED <<restVars, genVars, anVars>>
    \/ \E payload \in Payloads :
            HandleWebhook(payload) /\ UNCHANGED <<restVars, genVars, anVars>>
    \/ SkipAlert /\ UNCHANGED <<restVars, genVars, anVars>>
    \/ PrepareContextFailed /\ UNCHANGED <<restVars, genVars, anVars>>
    \/ \E now \in clock, since \in clock :
            now <= since /\ ResolvedGenerate(now, since) /\ UNCHANGED <<restVars, anVars>>
    \/ \E response \in LLMResponses :
            GenBackendOk(response) /\ UNCHANGED <<restVars, anVars, hookVars>>
    \/ \E err \in BackendErrors :
            GenBackendFails(err) /\ UNCHANGED <<restVars, anVars, hookVars>>
    \/ GenRules /\ UNCHANGED <<restVars, anVars, hookVars>>
    \/ \E now \in clock, since \in clock :
            now <= since /\ GenAssemble(now, since) /\ UNCHANGED <<restVars, anVars, hookVars>>
    \/ \E reporterFails \in BOOLEAN :
            GenerateSucceeded(reporterFails) /\ UNCHANGED <<restVars, anVars>>
    \/ GenerateFailed /\ UNCHANGED <<restVars, anVars>>
    \/ FiringAnalyze /\ UNCHANGED <<restVars, genVars>>
    \/ \E response \in LLMResponses, now \in clock :
            AnBackendOk(response, now) /\ UNCHANGED <<restVars, genVars, hookVars>>
    \/ \E err \in BackendErrors :
            AnBackendFails(err) /\ UNCHANGED <<restVars, genVars, hookVars>>
    \/ AnalyzeReturned /\ UNCHANGED <<restVars, genVars>>
    \/ LoopEnd /\ UNCHANGED <<restVars, genVars, anVars>>

NextHook == HookStep({0})

\* The handler as server.New builds it, or with one dependency left nil.
HandlerDeps ==
    { [generator |-> TRUE, analyzer |-> TRUE, mdReporter |-> TRUE],
      [generator |-> TRUE, analyzer |-> TRUE, mdReporter |-> FALSE],
      [generator |-> FALSE, analyzer |-> TRUE, mdReporter |-> TRUE],
      [generator |-> TRUE, analyzer |-> FALSE, mdReporter |-> TRUE] }

InitHook ==
    /\ InitCalls(1) /\ cfg.MetricsWindow = "" /\ ~cfg.TempoEnabled
    /\ GenIdle /\ AnIdle /\ ProvIdle
    /\ \E d \in HandlerDeps : HookRest(d)

HookSpec == InitHook /\ [][NextHook]_vars

\* ================================================================ properties
Returned_(c) == callPc[c] \in {"returned", "handled"}

\* A task failed when the collaborator it depends on gave it nothing but errors.
TaskFailed(c, t) ==
    CASE t = "metrics" -> collab[c].latency = "err" /\ collab[c].errorRate = "err"
                          /\ collab[c].rps = "err"
      [] t = "commits" -> collab[c].commits = "err"
      [] OTHER -> collab[c].getTraces = "err"

AnyCallFailed(c) ==
    \E k \in {"latency", "errorRate", "rps", "commits", "getTraces", "slowSpans"} :
        collab[c][k] = "err"

FailedIndexes(c) == {k \in 1..Len(recvd[c]) : recvd[c][k].err # NoErr}

MaxOf(S) == CHOOSE m \in S : \A k \in S : k <= m

\* C1: each of the three spawned fetch tasks puts exactly one result on the
\* completion channel on every exit path (success, failure, cancellation):
\* never two, and a task that has ended, or a call that has returned, never zero.
C1_ExactlyOneResultPerTask ==
    \A c \in CallIds :
        /\ \A t \in Tasks :
            /\ sent[c][t] <= 1
            /\ taskPc[c][t] = "done" => sent[c][t] = 1
            /\ Returned_(c) => sent[c][t] = 1
        /\ callPc[c] # "idle" =>
            Len(resultCh[c]) + Len(recvd[c]) = Cardinality({t \in Tasks : sent[c][t] = 1})

C1_Witness ==
    \E c \in CallIds :
        /\ cancelled[c]
        /\ \A t \in Tasks : taskPc[c][t] = "done" /\ sent[c][t] = 1
        /\ taskRes[c]["traces"].err = TracesErr
        /\ taskRes[c]["commits"].err = NoErr

\* C2: under fair scheduling a running PrepareContext always returns, having
\* received exactly three completions, and a task that is about to report
\* always finds room in the completion channel.
C2_NeverDeadlocks ==
    /\ \A c \in {1} :
        (callPc[c] = "collecting") ~> (callPc[c] = "returned" /\ i[c] = 3 /\ Len(recvd[c]) = 3)
    /\ [](\A c \in CallIds : \A t \in Tasks :
            taskPc[c][t] = "send" => Len(resultCh[c]) < ChanCap)

C2_Witness ==
    \E c \in CallIds :
        /\ callPc[c] = "collecting"
        /\ Len(resultCh[c]) = 2
        /\ i[c] = 0
        /\ \E t \in Tasks : taskPc[c][t] = "send"

\* C3: a failure reported by one task neither cancels nor skips the others:
\* PrepareContext has returned only if all three tasks ran and reported and
\* all three results were received, whatever the earlier results were.
C3_ReturnsOnlyAfterAllReported ==
    \A c \in CallIds :
        Returned_(c) =>
            /\ Len(recvd[c]) = 3
            /\ \A t \in Tasks : taskPc[c][t] = "done"
            /\ \A t \in Tasks : \E k \in 1..Len(recvd[c]) : recvd[c][k] = taskRes[c][t]

C3_Witness ==
    \E c \in CallIds :
        /\ callPc[c] = "returned"
        /\ Len(recvd[c]) = 3
        /\ recvd[c][1].err # NoErr
        /\ recvd[c][2].err = NoErr /\ recvd[c][3].err = NoErr
        /\ ctxResult[c].Metrics.LatencyP99 > 0

\* C4: if exactly one of the three fetch tasks fails, PrepareContext returns
\* a non-nil error and a context whose other fields hold what the succeeding
\* tasks produced, whichever task is the failing one.
C4_OneFailureGivesErrorAndRest ==
    \A c \in CallIds :
        (Returned_(c) /\ Cardinality({t \in Tasks : TaskFailed(c, t)}) = 1) =>
            /\ aggregatedErr[c] # NoErr
            /\ ~TaskFailed(c, "metrics") => ctxResult[c].Metrics = taskRes[c]["metrics"].metrics
            /\ ~TaskFailed(c, "commits") => ctxResult[c].RecentCommits = taskRes[c]["commits"].commits
            /\ ~TaskFailed(c, "traces") => ctxResult[c].Traces = taskRes[c]["traces"].traces

\* C5: callers treat PrepareContext's error as a warning: with an error
\* returned, the resolved path still calls Generate, the firing path still
\* calls the Analysis Engine and the MCP tool still calls AnalyzeWithContext.
C5_ErrorIsOnlyAWarning ==
    \A c \in CallIds :
        (callPc[c] = "handled" /\ aggregatedErr[c] # NoErr) =>
            downstream[c] = (CASE caller[c] = "resolved" -> "Generate"
                               [] caller[c] = "firing" -> "Analyze"
                               [] OTHER -> "AnalyzeWithContext")

\* C6: the merge keeps whatever each task produced: the returned context's
\* Metrics, RecentCommits and Traces equal what the metrics, commits and
\* trace tasks returned, for every combination of results.
C6_MergeKeepsEverything ==
    \A c \in CallIds :
        Returned_(c) =>
            /\ ctxResult[c].Metrics = taskRes[c]["metrics"].metrics
            /\ ctxResult[c].RecentCommits = taskRes[c]["commits"].commits
            /\ ctxResult[c].Traces = taskRes[c]["traces"].traces

\* C7: when more than one task fails, the returned error is the error of the
\* failing result the aggregator received last; it is a single error and the
\* ones received earlier are not part of it.
C7_LastErrorWins ==
    \A c \in CallIds :
        (Returned_(c) /\ Cardinality(FailedIndexes(c)) > 1) =>
            /\ aggregatedErr[c] = recvd[c][MaxOf(FailedIndexes(c))].err
            /\ \E k \in FailedIndexes(c) : recvd[c][k].err # aggregatedErr[c]

C7_Witness ==
    \E c \in CallIds :
        /\ callPc[c] = "returned"
        /\ \E k1, k2 \in 1..Len(recvd[c]) :
            /\ k1 < k2
            /\ recvd[c][k1].err = TracesErr
            /\ recvd[c][k2].err = CommitsErr
        /\ aggregatedErr[c] = CommitsErr

\* C8: the returned context's window ends at alertTime and starts the
\* configured metrics window before it, whatever succeeded or failed and
\* whatever the wall clock says.
C8_WindowAnchoredToAlertTime ==
    \A c \in CallIds :
        Returned_(c) =>
            /\ ctxResult[c].TimeWindow.End = alertTime[c]
            /\ ctxResult[c].TimeWindow.Start = alertTime[c] - GetMetricsWindowDuration(cfg)

C8_Witness ==
    \E c \in CallIds :
        /\ callPc[c] = "returned"
        /\ caller[c] = "resolved"
        /\ alertTime[c] > 0
        /\ cfg.MetricsWindow = "5m"
        /\ aggregatedErr[c] # NoErr
        /\ ctxResult[c].TimeWindow.End = alertTime[c]

\* C9: with no trace client configured the trace task never calls the trace
\* collaborator, the returned TraceContext is the zero value and the trace
\* task contributes no error.
C9_DisabledTracesShortCircuit ==
    ~cfg.TempoEnabled =>
        \A c \in CallIds :
            /\ collab[c].getTraces = "none" /\ collab[c].slowSpans = "none"
            /\ taskRes[c]["traces"].err = NoErr
            /\ Returned_(c) => (ctxResult[c].Traces = ZeroTraces /\ aggregatedErr[c] # TracesErr)

C9_Witness ==
    \E c \in CallIds :
        /\ ~cfg.TempoEnabled
        /\ callPc[c] = "returned"
        /\ taskPc[c]["traces"] = "done"
        /\ ctxResult[c].Traces = ZeroTraces

\* C10: a fetch that succeeds with zero results is a success: if no
\* collaborator call failed, PrepareContext returns a nil error, whatever
\* the sizes of the results.
C10_EmptyResultsAreSuccess ==
    \A c \in CallIds :
        (Returned_(c) /\ ~AnyCallFailed(c)) => aggregatedErr[c] = NoErr

C10_Witness ==
    \E c \in CallIds :
        /\ callPc[c] = "returned"
        /\ ~AnyCallFailed(c)
        /\ collab[c].commits = "ok" /\ collab[c].getTraces = "ok" /\ collab[c].latency = "ok"
        /\ taskRes[c]["commits"].commits = <<>>
        /\ taskRes[c]["traces"].traces.TraceCount = 0
        /\ taskRes[c]["metrics"].metrics = ZeroMetrics
        /\ aggregatedErr[c] = NoErr

\* What call c returns when it runs alone: its own three results merged into
\* its own starting context.
SoloContext(c) ==
    Merge(Merge(Merge(EmptyContext(serviceName[c], alertTime[c]),
                      taskRes[c]["metrics"]), taskRes[c]["commits"]),
          taskRes[c]["traces"])

\* The errors call c can return when it runs alone: the error of one of its own
\* tasks, or none when none of them failed.
SoloErrors(c) ==
    IF \A t \in Tasks : taskRes[c][t].err = NoErr
    THEN {NoErr}
    ELSE {taskRes[c][t].err : t \in Tasks} \ {NoErr}

\* C11: two PrepareContext calls running at once for different services do not
\* interfere: whatever the interleaving, everything a call has received is a
\* result sent by one of its own tasks, nothing sent by its tasks goes anywhere
\* but its own channel, and the context and error it returns are the ones it
\* returns when it runs alone.
C11_CallsDoNotInterfere ==
    \A c \in CallIds :
        /\ callPc[c] # "idle" =>
            /\ Len(resultCh[c]) + Len(recvd[c]) =
                    Cardinality({t \in Tasks : sent[c][t] = 1})
            /\ \A k \in 1..Len(recvd[c]) :
                    \E t \in Tasks : sent[c][t] = 1 /\ recvd[c][k] = taskRes[c][t]
        /\ callPc[c] = "returned" =>
            /\ ctxResult[c] = SoloContext(c)
            /\ ctxResult[c].ServiceName = ConcService(c)
            /\ aggregatedErr[c] \in SoloErrors(c)

\* Both calls were collecting at once and have returned different contexts and
\* different errors.
C11_Witness ==
    /\ nCalls = 2
    /\ callPc[1] = "returned" /\ callPc[2] = "returned"
    /\ ctxResult[1].ServiceName # ctxResult[2].ServiceName
    /\ ctxResult[1].Metrics # ctxResult[2].Metrics
    /\ ctxResult[1].RecentCommits # ctxResult[2].RecentCommits
    /\ aggregatedErr[1] # aggregatedErr[2]

\* C12: when the backend call made by Generate returns an error, Generate
\* returns a nil Postmortem and a non-nil error that wraps the backend's error;
\* nothing of a Postmortem, whole or partial, is returned, and the handler
\* hands the reporter nothing for that alert.
C12_BackendErrorGivesNoPostmortem ==
    [][ /\ \A err \in BackendErrors :
            GenBackendFails(err) =>
                /\ genPc' = "done"
                /\ pm' = NilPostmortem
                /\ ~genErr'.nil
                /\ genErr'.wraps = err
        /\ (hookPc = "generating" /\ genPc = "done" /\ ~genErr.nil) =>
                (saved' = saved /\ postmortems' = postmortems)
        /\ saved' # saved => (~pm.nil /\ genErr.nil /\ pm.Markdown # NoMarkdown)
      ]_vars

\* The handler is about to take a failed Generate's return, a reporter at hand.
C12_Witness ==
    /\ hookPc = "generating"
    /\ genPc = "done"
    /\ genBackendCalls = 1
    /\ ~genErr.nil
    /\ genErr.wraps \in BackendErrors
    /\ pm.nil
    /\ deps.mdReporter

\* C13: the document rendered by Generate lists at most the first 3 of the
\* Rule Engine's suggestions in its suggested-fixes section, also for alert
\* names that match several categories and yield more than 3 suggestions.
C13_DocumentListsAtMostThree ==
    (genPc = "done" /\ ~pm.nil) =>
        LET all == GetSuggestions(genCtx.Alert) IN
        /\ Len(pm.Markdown.sections) <= SuggestionCap
        /\ \A k \in 1..Len(pm.Markdown.sections) :
                pm.Markdown.sections[k].h3 = all[k].Title

\* C14: a Postmortem is created exactly once per resolved alert: over any
\* sequence of webhook deliveries an alert that went from firing to resolved
\* leads to exactly one Generate call and one Postmortem, never two, and never
\* none once a delivery that carried it as resolved has been worked off; an
\* alert still firing leads to none.
C14_ExactlyOncePerResolvedAlert ==
    \A a \in AlertIds :
        /\ generateCalls[a] <= 1
        /\ postmortems[a] <= 1
        /\ amState[a] = "firing" => generateCalls[a] = 0
        /\ (hookPc = "idle" /\ resolvedDeliveries[a] > 0) =>
                (generateCalls[a] = 1 /\ postmortems[a] = 1)

\* C15: Analyze and AnalyzeWithContext each make exactly one backend call per
\* invocation, never a second one; when that call fails they return a nil
\* result and an error that wraps the backend's error.
C15_OneBackendCallNoRetry ==
    /\ [](/\ anBackendCalls <= 1
          /\ anPc = "backend" => anBackendCalls = 0
          /\ anPc = "done" =>
                /\ anBackendCalls = 1
                /\ anErr.nil = ~anResult.nil
                /\ ~anErr.nil => (anResult = NilResult /\ anErr.wraps \in BackendErrors))
    /\ [][\A err \in BackendErrors :
            AnBackendFails(err) =>
                (anPc' = "done" /\ anResult' = NilResult /\ ~anErr'.nil
                 /\ anErr'.wraps = err)]_vars

\* AnalyzeWithContext has returned after its one backend call failed.
C15_Witness ==
    /\ anPc = "done"
    /\ anKind = "AnalyzeWithContext"
    /\ anBackendCalls = 1
    /\ ~anErr.nil
    /\ anResult.nil

\* C16: when the backend call succeeds, AnalyzeWithContext returns a result
\* whose RootCause is the backend's text as it came, whose Confidence is
\* "medium", and whose service name, alert name, severity, summary, metrics and
\* commits are those of the context it was given.
C16_ResultEchoesContextAndText ==
    [][\A response \in LLMResponses, now \in TimeNow :
            (anKind = "AnalyzeWithContext" /\ AnBackendOk(response, now)) =>
                /\ anPc' = "done"
                /\ anErr'.nil
                /\ ~anResult'.nil
                /\ anResult'.RootCause = response
                /\ anResult'.Confidence = "medium"
                /\ anResult'.ServiceName = anCtx.ServiceName
                /\ anResult'.AlertName = anCtx.Alert.Name
                /\ anResult'.Severity = anCtx.Alert.Severity
                /\ anResult'.Summary = anCtx.Alert.Summary
                /\ anResult'.Metrics = anCtx.Metrics
                /\ anResult'.Commits = anCtx.RecentCommits
                /\ anCtx' = anCtx]_vars

\* AnalyzeWithContext has returned a result for a context with metrics and
\* commits, the backend having answered with JSON that names another confidence.
C16_Witness ==
    /\ anPc = "done"
    /\ anKind = "AnalyzeWithContext"
    /\ anErr.nil
    /\ anResult.RootCause # ""
    /\ anResult.Confidence = "medium"
    /\ Len(anResult.Commits) > 0
    /\ anResult.Metrics # ZeroMetrics

\* The categories of the Rule Engine, the keywords of each and the titles of
\* the suggestions of each.
Categories == {"latency", "error-rate", "cpu", "memory"}

CategoryKeywords(cat) ==
    CASE cat = "latency" -> {KwHighLatency, KwLatency}
      [] cat = "error-rate" -> {KwErrorRate, KwHighErrorRate}
      [] cat = "cpu" -> {KwCPU, KwThrottling}
      [] OTHER -> {KwMemory, KwOOM}

CategoryTitles(cat) ==
    CASE cat = "latency" -> <<"Check Database Query Performance", "Scale Up Service Replicas">>
      [] cat = "error-rate" -> <<"Investigate Recent Deployments", "Check Downstream Dependencies">>
      [] cat = "cpu" -> <<"Review CPU Limits">>
      [] OTHER -> <<"Investigate Memory Leaks">>

Range(seq) == {seq[k] : k \in DOMAIN seq}

\* name holds keyword kw somewhere, letter case aside
ContainsFold(name, kw) ==
    \E off \in 0..(Len(name) - Len(kw)) :
        \A j \in 1..Len(kw) : ToLowerChar(name[off + j]) = ToLowerChar(kw[j])

MatchesCategory(name, cat) == \E kw \in CategoryKeywords(cat) : ContainsFold(name, kw)

TitlesOf(suggestions) == [k \in DOMAIN suggestions |-> suggestions[k].Title]

\* C17: GetSuggestions includes a category's suggestions exactly when the alert
\* name holds, letter case aside, a keyword of that category:
\* "HighLatencyAlert" yields the latency suggestions and no memory suggestion,
\* "OOMKilled" yields only the memory suggestion, and a name matching no
\* category yields the empty list.
C17_CategoryIncludedIffKeyword ==
    genRuleCalls = 1 =>
        LET name == genCtx.Alert.Name
            got == Range(TitlesOf(ruleSuggestions))
        IN
        /\ \A cat \in Categories :
            IF MatchesCategory(name, cat)
            THEN Range(CategoryTitles(cat)) \subseteq got
            ELSE Range(CategoryTitles(cat)) \cap got = {}
        /\ got \subseteq UNION {Range(CategoryTitles(cat)) : cat \in Categories}
        /\ name = AlertNameOf("latency") =>
                TitlesOf(ruleSuggestions) = CategoryTitles("latency")
        /\ name = AlertNameOf("oom") =>
                TitlesOf(ruleSuggestions) = CategoryTitles("memory")
        /\ (\A cat \in Categories : ~MatchesCategory(name, cat)) => ruleSuggestions = <<>>

\* GetSuggestions has answered for "OOMKilled", whose keyword is in upper case.
C17_Witness ==
    /\ genRuleCalls = 1
    /\ genCtx.Alert.Name = AlertNameOf("oom")
    /\ Len(ruleSuggestions) = 1

\* The titles a category contributes for a name, and the titles of the whole
\* answer: the categories' contributions in the engine's fixed order.
TitlesFor(name, cat) == IF MatchesCategory(name, cat) THEN CategoryTitles(cat) ELSE <<>>

ExpectedTitles(name) ==
    TitlesFor(name, "latency") \o TitlesFor(name, "error-rate")
        \o TitlesFor(name, "cpu") \o TitlesFor(name, "memory")

\* C18: matching in GetSuggestions is non-exclusive and ordered: for a name
\* matching several categories the answer is every matching category's
\* suggestions, in the order latency, error-rate, CPU/throttling, memory/OOM,
\* wherever the keywords stand in the name.
C18_OrderedNonExclusive ==
    genRuleCalls = 1 =>
        /\ TitlesOf(ruleSuggestions) = ExpectedTitles(genCtx.Alert.Name)
        /\ Len(ruleSuggestions) =
                Len(ExpectedTitles(genCtx.Alert.Name))

\* GetSuggestions has answered for "OOMCPULatency", whose keywords stand in the
\* reverse of the category order.
C18_Witness ==
    /\ genRuleCalls = 1
    /\ genCtx.Alert.Name = <<"O","O","M","C","P","U","L","a","t","e","n","c","y">>
    /\ TitlesOf(ruleSuggestions) =
            CategoryTitles("latency") \o CategoryTitles("cpu") \o CategoryTitles("memory")

\* The commit lines of the full-context prompt: its last part.
RenderedCommits(prompt) == prompt[Len(prompt)].lines

\* C20: in the full-context prompt at most the first 10 commits of the
\* context's list are rendered, in list order, and every commit message longer
\* than 50 characters is rendered as its first 50 characters followed by an
\* ellipsis marker, every shorter one unchanged.
C20_TenCommitsFiftyCharacters ==
    (anKind = "AnalyzeWithContext" /\ anPc \in {"backend", "done"}) =>
        LET commits == anCtx.RecentCommits
            lines == RenderedCommits(anPrompt)
        IN
        /\ Len(lines) = Min(Len(commits), CommitCap)
        /\ \A k \in 1..Len(lines) :
            /\ lines[k].sha.id = commits[k].SHA.id
            /\ lines[k].msg =
                IF Len(commits[k].Message) > MessageCap
                THEN [chars |-> SubSeq(commits[k].Message, 1, MessageCap),
                      brokenBytes |-> 0, ellipsis |-> TRUE]
                ELSE [chars |-> commits[k].Message, brokenBytes |-> 0,
                      ellipsis |-> FALSE]

\* ------------------------------------------- configuration, backend: steps
\* config.Load runs once at start-up.
Load(providerString, environment) ==
    /\ provPc = "start"
    /\ environ' = environment
    /\ llmCfg' = LoadLLM(providerString, environment)
    /\ provPc' = "loaded"
    /\ UNCHANGED <<provider, provErr, apiAnswer, analyzeRet>>

\* server.New: NewProvider on the loaded configuration; an error ends the
\* process (log.Fatalf).
NewProviderCall ==
    /\ provPc = "loaded"
    /\ LET r == NewProvider(llmCfg)
       IN  /\ provider' = r.p
           /\ provErr' = r.err
           /\ provPc' = IF r.err # NoErr THEN "setupFailed" ELSE "constructed"
    /\ UNCHANGED <<environ, llmCfg, apiAnswer, analyzeRet>>

\* One call of the constructed backend's Analyze, answered by the API.
ProviderAnalyze(answer) ==
    /\ provPc = "constructed"
    /\ apiAnswer' = answer
    /\ analyzeRet' = CASE provider.dynType = "*OpenAIProvider" -> OpenAIAnalyze(answer)
                       [] provider.dynType = "*AnthropicProvider" -> AnthropicAnalyze(answer)
                       [] provider.dynType = "*OllamaProvider" -> OllamaAnalyze(answer)
    /\ provPc' = "answered"
    /\ UNCHANGED <<environ, llmCfg, provider, provErr>>

NextProv ==
    \/ \E providerString \in ProviderStrings, environment \in Environments :
            Load(providerString, environment) /\ UNCHANGED <<orchVars, genVars, anVars, hookVars>>
    \/ NewProviderCall /\ UNCHANGED <<orchVars, genVars, anVars, hookVars>>
    \/ \E answer \in ApiAnswers :
            ProviderAnalyze(answer) /\ UNCHANGED <<orchVars, genVars, anVars, hookVars>>

ProvSpec == InitGen /\ [][NextProv]_vars

\* ------------------------------------------------------------ C21, C24, C30
ProviderReturned == provPc \in {"constructed", "setupFailed", "answered"}

SupportedDiscriminators == {ProviderOpenAI, ProviderAnthropic, ProviderOllama}

\* C21: NewProvider returns an error and no backend for every discriminator
\* other than openai, anthropic or ollama and for openai or anthropic with an
\* empty API key; otherwise it returns, without error, the backend whose Name
\* is the discriminator. A failed construction ends the set-up: Analyze is
\* never called after it.
C21_ConstructionFailsAtSetup ==
    ProviderReturned =>
        LET discriminator == ProviderType(llmCfg)
            mustFail == \/ discriminator \notin SupportedDiscriminators
                        \/ /\ discriminator \in {ProviderOpenAI, ProviderAnthropic}
                           /\ llmCfg.APIKey = ""
        IN  /\ mustFail => /\ provErr # NoErr
                           /\ provider.ptrNil
                           /\ provPc = "setupFailed"
                           /\ analyzeRet = NoReturn
            /\ ~mustFail => /\ provErr = NoErr
                            /\ ~provider.ptrNil
                            /\ ProviderName(provider) = discriminator

C21_Witness ==
    /\ provPc = "setupFailed"
    /\ llmCfg.Provider = ProviderOpenAI
    /\ llmCfg.APIKey = ""
    /\ provErr = "OpenAI API key is required"

\* C24: the OpenAI and Anthropic backends' Analyze returns the first
\* choice's text and a nil error when the API answers 200 with at least one
\* choice, the empty text and an error when the API answers another status or
\* a 200 without a choice, and never a non-empty text together with an error.
C24_TextOrError ==
    (provPc = "answered" /\ provider.dynType \in {"*OpenAIProvider", "*AnthropicProvider"}) =>
        /\ (/\ apiAnswer.transport = "ok" /\ apiAnswer.status = 200
            /\ apiAnswer.decodes /\ Len(apiAnswer.choices) >= 1)
                => analyzeRet = [text |-> apiAnswer.choices[1], err |-> NoErr]
        /\ (/\ apiAnswer.transport = "ok"
            /\ \/ apiAnswer.status # 200
               \/ apiAnswer.decodes /\ Len(apiAnswer.choices) = 0)
                => (analyzeRet.text = "" /\ analyzeRet.err # NoErr)
        /\ ~(analyzeRet.text # "" /\ analyzeRet.err # NoErr)

C24_Witness ==
    /\ provPc = "answered"
    /\ provider.dynType = "*OpenAIProvider"
    /\ apiAnswer.transport = "ok"
    /\ apiAnswer.status = 500
    /\ analyzeRet.err = "OpenAI API error"

\* C30: the API key config.Load puts in the LLM configuration is the key of
\* the backend NewProvider selects: the Anthropic key when it selects
\* Anthropic, the OpenAI key when it selects OpenAI, whatever the letter case
\* of the provider string.
C30_CredentialOfSelectedBackend ==
    ProviderReturned =>
        /\ provider.dynType = "*AnthropicProvider" => llmCfg.APIKey = environ.ANTHROPIC_API_KEY
        /\ provider.dynType = "*OpenAIProvider" => llmCfg.APIKey = environ.OPENAI_API_KEY

\* ------------------------------------------------------- the HTTP endpoint
\* POST /webhook under every kind of request, with deliveries arriving while
\* an earlier payload is being processed; the alerts are all firing.
NextWeb ==
    \/ \E request \in Requests :
            ServeWebhook(request) /\ UNCHANGED <<restVars, genVars, anVars>>
    \/ StartBacklog /\ UNCHANGED <<restVars, genVars, anVars>>
    \/ SkipAlert /\ UNCHANGED <<restVars, genVars, anVars>>
    \/ PrepareContextFailed /\ UNCHANGED <<restVars, genVars, anVars>>
    \/ FiringAnalyze /\ UNCHANGED <<restVars, genVars>>
    \/ \E response \in LLMResponses :
            AnBackendOk(response, 0) /\ UNCHANGED <<restVars, genVars, hookVars>>
    \/ \E err \in BackendErrors :
            AnBackendFails(err) /\ UNCHANGED <<restVars, genVars, hookVars>>
    \/ AnalyzeReturned /\ UNCHANGED <<restVars, genVars>>
    \/ LoopEnd /\ UNCHANGED <<restVars, genVars, anVars>>

InitWeb ==
    /\ InitCalls(1) /\ cfg.MetricsWindow = "" /\ ~cfg.TempoEnabled
    /\ EnginesIdle

WebSpec == InitWeb /\ [][NextWeb]_vars

\* The answer the endpoint owes a request.
ExpectedAnswer(request) ==
    IF request.method # "POST" THEN [code |-> 405, accepted |-> FALSE]
    ELSE IF request.body = "payload" /\ Len(request.alerts) >= 1
         THEN [code |-> 200, accepted |-> TRUE]
    ELSE [code |-> 400, accepted |-> FALSE]

\* C22: POST /webhook answers 200 with status "accepted" exactly when the
\* body parses as an AlertManager payload with at least one alert, 400 for an
\* unparseable body or an empty alert list, and 405 for a request that is not
\* a POST. The answer is written in the step that takes the request, whatever
\* processAlerts is doing then, and no later step of the processing changes it.
C22_AnswerDependsOnRequestOnly ==
    [][ /\ \A request \in Requests :
            \/ /\ httpResp'.code = ExpectedAnswer(request).code
               /\ (httpResp'.status = "accepted") = ExpectedAnswer(request).accepted
            \/ ~ServeWebhook(request)
        /\ httpResp' # httpResp => \E request \in Requests : ServeWebhook(request) ]_vars

\* A delivery was accepted while the alerts of an earlier one were still being
\* processed, and the processing went on after the answer.
C22_Witness ==
    /\ httpResp.code = 200 /\ httpResp.status = "accepted"
    /\ deliveries = 2
    /\ backlog # <<>>
    /\ hookPc = "analyzing" /\ anPc = "done" /\ ~anErr.nil

\* ------------------------------------- the callers of the two deep analyses
\* The lengths a commit's SHA can have as the GitHub client decodes it: the
\* client and fetchCommits copy the "sha" member as it comes.
SHALengths == {0, 6, 7, 40}

\* The CommitInfo values fetchCommits builds, with what the analysis engine
\* reads of them: the SHA's length, the message, the author.
CommitDetails(commits, shaLen, msg) ==
    [k \in DOMAIN commits |->
        [SHA |-> [id |-> commits[k].SHA, len |-> shaLen], Message |-> msg,
         Author |-> "dev"]]

\* processAlerts, resolved branch: the context of PrepareContext with the
\* alert snapshot attached, as Generate receives it.
HandlerContexts ==
    UNION { { [out.ctx EXCEPT !.Alert =
                    AlertInfo(Lookup(AlertLabelsOf(a), "alertname"), AlertLabelsOf(a),
                              Lookup(AlertAnnotationsOf(a), "summary"), 0)] :
                out \in { o \in PrepareContextReturns(extractServiceName(AlertLabelsOf(a)), 0) :
                            o.err = NoErr } } :
            a \in {b \in AlertIds : extractServiceName(AlertLabelsOf(b)) # ""} }

\* MCP analyze_alert: the context of PrepareContext with the alert of the
\* request attached, as AnalyzeWithContext receives it.
McpContexts ==
    { [out.ctx EXCEPT
            !.RecentCommits = CommitDetails(out.ctx.RecentCommits, shaLen, <<1, 1, 1>>),
            !.Alert = AlertInfo(AlertNameOf(a),
                                [service_name |-> svc, alertname |-> AlertNameOf(a),
                                 severity |-> "critical"],
                                "p99 above 2s", now)] :
        out \in { o \in UNION {PrepareContextReturns(s, 0) : s \in Services} : o.err = NoErr },
        shaLen \in SHALengths, a \in {"latency"}, svc \in Services, now \in {0} }

\* One process runs the webhook handler, which calls Generate; another runs
\* the MCP server, which calls AnalyzeWithContext. A behaviour follows one
\* call of either, on every context its caller can pass.
NextFrame ==
    \/ /\ genPc = "idle" /\ anPc = "idle"
       /\ \E ac \in HandlerContexts : GenerateCall(ac, 0, 0)
       /\ UNCHANGED <<restVars, anVars, hookVars>>
    \/ \E response \in LLMResponses :
            GenBackendOk(response) /\ UNCHANGED <<restVars, anVars, hookVars>>
    \/ \E err \in BackendErrors :
            GenBackendFails(err) /\ UNCHANGED <<restVars, anVars, hookVars>>
    \/ GenRules /\ UNCHANGED <<restVars, anVars, hookVars>>
    \/ GenAssemble(0, 0) /\ UNCHANGED <<restVars, anVars, hookVars>>
    \/ /\ genPc = "idle" /\ anPc = "idle"
       /\ \E ctxData \in McpContexts : AnalyzeWithContextCall(ctxData)
       /\ UNCHANGED <<restVars, genVars, hookVars>>
    \/ \E response \in LLMResponses :
            AnBackendOk(response, 0) /\ UNCHANGED <<restVars, genVars, hookVars>>
    \/ \E err \in BackendErrors :
            AnBackendFails(err) /\ UNCHANGED <<restVars, genVars, hookVars>>

FrameSpec == InitWeb /\ [][NextFrame]_vars

\* C23: AnalyzeWithContext and Generate leave every field of the context they
\* are given unchanged, when the backend succeeds and when it fails: from the
\* call on, no step of either changes the context.
C23_CalleesLeaveContextUnchanged ==
    [][ /\ genPc # "idle" => genCtx' = genCtx
        /\ anPc # "idle" => anCtx' = anCtx ]_vars

C23_Witness ==
    /\ anKind = "AnalyzeWithContext" /\ anPc = "done" /\ ~anErr.nil
    /\ Len(anCtx.RecentCommits) = MaxCommits
    /\ anCtx.Alert.Name = AlertNameOf("latency")

\* C28: AnalyzeWithContext ends with a result or an error for every context
\* PrepareContext can return: rendering the prompt never aborts, whatever the
\* length of a commit's SHA and however many commits and spans there are.
C28_RenderingNeverAborts ==
    anKind = "AnalyzeWithContext" => anPc # "panicked"

ContextInOrder(c, first, second, third) ==
    Merge(Merge(Merge(EmptyContext(serviceName[c], alertTime[c]), taskRes[c][first]),
                taskRes[c][second]),
          taskRes[c][third])

\* C26: the context PrepareContext returns is the one every arrival order of
\* the three results gives; the returned error is an error of a failed task,
\* the last one received, and is fixed unless two or more tasks failed.
C26_ContextIndependentOfArrivalOrder ==
    \A c \in CallIds :
        callPc[c] = "returned" =>
            /\ \A first \in Tasks, second \in Tasks, third \in Tasks :
                    {first, second, third} = Tasks =>
                        ctxResult[c] = ContextInOrder(c, first, second, third)
            /\ LET failed == {t \in Tasks : taskRes[c][t].err # NoErr}
               IN  /\ failed = {} => aggregatedErr[c] = NoErr
                   /\ failed # {} => aggregatedErr[c] \in {taskRes[c][t].err : t \in failed}
                   /\ \A k \in 1..Len(recvd[c]) :
                        (/\ recvd[c][k].err # NoErr
                         /\ \A j \in (k + 1)..Len(recvd[c]) : recvd[c][j].err = NoErr)
                            => aggregatedErr[c] = recvd[c][k].err

\* The results arrived traces first and commits last, both of these tasks
\* failed, with different errors, and the context holds the metrics.
C26_Witness ==
    \E c \in CallIds :
        /\ callPc[c] = "returned"
        /\ recvd[c][1] = taskRes[c]["traces"] /\ recvd[c][1].err = TracesErr
        /\ recvd[c][2] = taskRes[c]["metrics"] /\ recvd[c][2].metrics.LatencyP99 > 0
        /\ recvd[c][3] = taskRes[c]["commits"] /\ recvd[c][3].err = CommitsErr
        /\ aggregatedErr[c] = CommitsErr
        /\ ctxResult[c].Metrics.LatencyP99 > 0

\* ------------------------------------------- every metrics_window setting
\* The analysis.metrics_window strings tried: unset, zero, not a duration,
\* positive durations and a negative one (time.ParseDuration accepts a sign).
WindowSettings == {"", "0", "15 minutes", "5m", "15m", "-5m"}

InitWindow ==
    /\ InitSettings(1, WindowSettings) /\ cfg.TempoEnabled
    /\ EnginesIdle

\* One PrepareContext call under each setting.
WindowSpec == InitWindow /\ [][NextConc]_vars

\* C27: whatever the metrics_window setting, the window PrepareContext uses
\* is strictly positive, so the returned context's TimeWindow.Start is
\* earlier than its TimeWindow.End.
C27_WindowStrictlyPositive ==
    \A c \in CallIds :
        callPc[c] = "returned" =>
            /\ ctxResult[c].TimeWindow.Duration > 0
            /\ ctxResult[c].TimeWindow.Start < ctxResult[c].TimeWindow.End
            /\ metricsStart[c] < metricsEnd[c]

\* ---------------------------------------------------- one payload's alerts
\* A sender puts a status other than firing or resolved on an alert.
AlertStatusOther(a) ==
    /\ amState[a] = "firing"
    /\ deliveries = 0
    /\ amState' = [amState EXCEPT ![a] = "suppressed"]
    /\ UNCHANGED <<httpResp, backlog, deps, deliveries, resolvedDeliveries, queue, hookPc,
                   hookCtx, generateCalls, postmortems, saved>>

\* A step of the processAlerts goroutine or of an engine it waits for.
LoopStep ==
    \/ SkipAlert /\ UNCHANGED <<restVars, genVars, anVars>>
    \/ PrepareContextFailed /\ UNCHANGED <<restVars, genVars, anVars>>
    \/ ResolvedGenerate(0, 0) /\ UNCHANGED <<restVars, anVars>>
    \/ \E response \in LLMResponses :
            GenBackendOk(response) /\ UNCHANGED <<restVars, anVars, hookVars>>
    \/ \E err \in BackendErrors :
            GenBackendFails(err) /\ UNCHANGED <<restVars, anVars, hookVars>>
    \/ GenRules /\ UNCHANGED <<restVars, anVars, hookVars>>
    \/ GenAssemble(0, 0) /\ UNCHANGED <<restVars, anVars, hookVars>>
    \/ \E reporterFails \in BOOLEAN :
            GenerateSucceeded(reporterFails) /\ UNCHANGED <<restVars, anVars>>
    \/ GenerateFailed /\ UNCHANGED <<restVars, anVars>>
    \/ FiringAnalyze /\ UNCHANGED <<restVars, genVars>>
    \/ \E response \in LLMResponses :
            AnBackendOk(response, 0) /\ UNCHANGED <<restVars, genVars, hookVars>>
    \/ \E err \in BackendErrors :
            AnBackendFails(err) /\ UNCHANGED <<restVars, genVars, hookVars>>
    \/ AnalyzeReturned /\ UNCHANGED <<restVars, genVars>>
    \/ LoopEnd /\ UNCHANGED <<restVars, genVars, anVars>>

\* One delivery, of alerts in any of the three statuses, and its processing.
NextLoop ==
    \/ \E a \in AlertIds :
            deliveries = 0 /\ AlertResolves(a) /\ UNCHANGED <<restVars, genVars, anVars>>
    \/ \E a \in AlertIds : AlertStatusOther(a) /\ UNCHANGED <<restVars, genVars, anVars>>
    \/ \E payload \in Payloads :
            deliveries = 0 /\ HandleWebhook(payload) /\ UNCHANGED <<restVars, genVars, anVars>>
    \/ LoopStep

\* The goroutine is scheduled, and every call it waits for returns.
LoopSpec == InitHook /\ [][NextLoop]_vars /\ WF_vars(LoopStep)

\* C29: processAlerts takes the alerts of a payload one at a time in payload
\* order: the queue of alerts yet to handle only ever loses its head, the
\* engines work on that head, and the loop is left only when the queue is
\* empty. Whatever happens to an alert (skipped, context error, backend
\* error, reporter error, success), the loop goes on to the next one, and
\* under fair scheduling it comes to its end with every alert taken.
C29_EveryAlertOfThePayloadIsReached ==
    /\ [][ /\ (hookPc # "idle" /\ queue' # queue) => (queue # <<>> /\ queue' = Tail(queue))
           /\ (hookPc # "idle" /\ hookPc' = "idle") => queue = <<>>
           /\ \A a \in AlertIds :
                (generateCalls'[a] # generateCalls[a] \/ postmortems'[a] # postmortems[a]
                    \/ saved'[a] # saved[a])
                    => (queue # <<>> /\ Head(queue).Fingerprint = a)
           /\ \A reporterFails \in BOOLEAN :
                (\/ SkipAlert \/ PrepareContextFailed \/ GenerateFailed \/ AnalyzeReturned
                 \/ GenerateSucceeded(reporterFails))
                    => (hookPc' = "loop" /\ queue' = Tail(queue)) ]_vars
    /\ [](hookPc = "analyzing" => (queue # <<>> /\ anAlert = Head(queue)))
    /\ [](hookPc = "generating" => (queue # <<>> /\ hookCtx.Alert.Labels = Head(queue).Labels))
    /\ (hookPc # "idle") ~> (hookPc = "idle" /\ queue = <<>>)

\* The first alert of the payload had its Generate fail; the second one, the
\* last, is being analyzed.
C29_Witness ==
    /\ deliveries = 1
    /\ generateCalls["oom"] = 1 /\ postmortems["oom"] = 0
    /\ hookPc = "analyzing" /\ Len(queue) = 1
    /\ Head(queue).Fingerprint = "latency"

====
